---- MODULE Spec2Model ----
(***************************************************************************)
(* Model of the SVG template card builder                                  *)
(* (src/app/services/card_builder_svg.py).                                 *)
(*                                                                         *)
(* Numbers.  The code computes lengths as Python floats.  The model keeps  *)
(* a length as an integer number of 1/Scale pixels (fixed point), which is *)
(* exact for every product the code forms on the modelled inputs           *)
(* (x * 0.9, x * 0.05, font_size * 1.35, width * nh / nw).  int() is       *)
(* truncation toward zero, as in Python.  The rounding error of a double   *)
(* (below 10^-12 here) is left out, except in _compose_on_canvas, where    *)
(* it decides a truncation (see float_quotient).                           *)
(*                                                                         *)
(* Strings.  A string is a sequence of one-character strings, so that      *)
(* str.split(), str.strip() and len() are computed, not assumed.           *)
(***************************************************************************)
EXTENDS Integers, Sequences, FiniteSets, TLC

VARIABLES
    wrap,      \* one call of _wrap_text: its arguments and its result
    canvas,    \* one call of _compose_on_canvas: the card and the result
    pc,        \* build_card_svg: the position of the call
    inp,       \* build_card_svg: the arguments and the template file
    doc,       \* build_card_svg: the parsed tree `root`, mutated in place
    lay,       \* build_card_svg: the local variables of the layout pass
    result,    \* build_card_svg: what the call returned (or raised)
    pair,      \* two overlapping calls of build_card_svg and the template file
    cycler,    \* one KeyCycler and the threads calling get_key and reload
    gemini,    \* one call of APIKeyManager.gemini_generate and its KeyCycler
    source_call, \* calls of _inject_source on one tree
    text_call    \* calls of _inject_text on one tree

vars == <<wrap, canvas, pc, inp, doc, lay, result, pair, cycler, gemini,
                   source_call, text_call>>

\* ------------------------------------------------------------------------
\* Program constants
\* ------------------------------------------------------------------------
LINE_HEIGHT == 30
TEXT_TO_IMAGE_GAP == 20
IMAGE_TO_SOURCE_GAP == 16
BOTTOM_PADDING == 24
DEFAULT_IMAGE_HEIGHT == 300
MIN_CARD_WIDTH == 350
MAX_CARD_WIDTH == 800
SIDE_PADDING == 24
VIDEO_WIDTH == 1080
VIDEO_HEIGHT == 1920
CARD_MARGIN == 50

\* ------------------------------------------------------------------------
\* Bounds of the model
\* ------------------------------------------------------------------------
\* Longest body handed to _wrap_text in the specification SpecWrap.
MaxBodyLen == 8
\* Largest character budget handed to _wrap_text in SpecWrap.
MaxBudget == 4
\* Largest card width or height handed to _compose_on_canvas in SpecCanvas.
MaxCardDim == 4000
\* Largest value of KeyCycler._index at which a get_key call is started.
MaxIndex == 3

\* ------------------------------------------------------------------------
\* Numbers
\* ------------------------------------------------------------------------
\* Fixed point: a length is an integer number of 1/Scale pixels.
Scale == 10 * 10

Px(n) == n * Scale

Abs(a) == IF a < 0 THEN -a ELSE a

Max(a, b) == IF b > a THEN b ELSE a

Min(a, b) == IF b < a THEN b ELSE a

\* Quotient truncated toward zero (b # 0): Python's int(a / b).
TruncDiv(a, b) ==
    IF (a >= 0) = (b > 0) THEN Abs(a) \div Abs(b) ELSE -(Abs(a) \div Abs(b))

\* Python's int(x) of a length: whole pixels, truncated toward zero.
ToInt(x) == TruncDiv(x, Scale)

\* ------------------------------------------------------------------------
\* Strings
\* ------------------------------------------------------------------------
\* The positions where a word starts: a non-blank at the start of the
\* string or after a blank.
word_starts(s) ==
    { i \in 1..Len(s) : s[i] # " " /\ (i = 1 \/ s[i - 1] = " ") }

\* The position where the word that starts at i ends.
word_end(s, i) ==
    CHOOSE j \in i..Len(s) :
        /\ \A k \in i..j : s[k] # " "
        /\ j = Len(s) \/ s[j + 1] = " "

\* str.split(): the maximal runs of non-whitespace characters, in order.
split(s) ==
    LET starts == word_starts(s)
        nth(k) == CHOOSE i \in starts : Cardinality({ j \in starts : j <= i }) = k
    IN  [k \in 1..Cardinality(starts) |-> SubSeq(s, nth(k), word_end(s, nth(k)))]

RECURSIVE lstrip(_)
lstrip(s) == IF s # <<>> /\ Head(s) = " " THEN lstrip(Tail(s)) ELSE s

RECURSIVE rstrip(_)
rstrip(s) ==
    IF s # <<>> /\ s[Len(s)] = " " THEN rstrip(SubSeq(s, 1, Len(s) - 1)) ELSE s

\* str.strip()
strip(s) == rstrip(lstrip(s))

\* ------------------------------------------------------------------------
\* _wrap_text
\* ------------------------------------------------------------------------
\* The loop body of _wrap_text: the words still to place, the current line
\* and the lines closed so far.
RECURSIVE wrap_loop(_, _, _, _)
wrap_loop(words, cur, lines, max_chars) ==
    IF words = <<>>
    THEN IF cur # <<>> THEN Append(lines, cur) ELSE lines
    ELSE LET w == Head(words)
             test == strip(cur \o <<" ">> \o w)
         IN  IF Len(test) <= max_chars
             THEN wrap_loop(Tail(words), test, lines, max_chars)
             ELSE wrap_loop(Tail(words), w,
                            IF cur # <<>> THEN Append(lines, cur) ELSE lines,
                            max_chars)

\* Faulty variant: the budget is compared with the line before the word is added.
RECURSIVE wrap_loop_late(_, _, _, _)
wrap_loop_late(words, cur, lines, max_chars) ==
    IF words = <<>>
    THEN IF cur # <<>> THEN Append(lines, cur) ELSE lines
    ELSE LET w == Head(words)
             test == strip(cur \o <<" ">> \o w)
         IN  IF Len(cur) <= max_chars
             THEN wrap_loop_late(Tail(words), test, lines, max_chars)
             ELSE wrap_loop_late(Tail(words), w,
                                 IF cur # <<>> THEN Append(lines, cur) ELSE lines,
                                 max_chars)

wrap_text_late(text, max_chars) ==
    LET lines == wrap_loop_late(split(text), <<>>, <<>>, max_chars)
    IN  IF lines = <<>> THEN << <<>> >> ELSE lines

\* Faulty variant: on overflow the current line is dropped instead of being closed.
RECURSIVE wrap_loop_drop(_, _, _, _)
wrap_loop_drop(words, cur, lines, max_chars) ==
    IF words = <<>>
    THEN IF cur # <<>> THEN Append(lines, cur) ELSE lines
    ELSE LET w == Head(words)
             test == strip(cur \o <<" ">> \o w)
         IN  IF Len(test) <= max_chars
             THEN wrap_loop_drop(Tail(words), test, lines, max_chars)
             ELSE wrap_loop_drop(Tail(words), w, lines, max_chars)

wrap_text_drop(text, max_chars) ==
    LET lines == wrap_loop_drop(split(text), <<>>, <<>>, max_chars)
    IN  IF lines = <<>> THEN << <<>> >> ELSE lines

\* Faulty variant: no lines at all for a body without words.
wrap_text_nolines(text, max_chars) ==
    wrap_loop(split(text), <<>>, <<>>, max_chars)

wrap_text(text, max_chars) ==
    LET lines == wrap_loop(split(text), <<>>, <<>>, max_chars)
    IN  IF lines = <<>> THEN << <<>> >> ELSE lines

\* ------------------------------------------------------------------------
\* _compose_on_canvas
\* ------------------------------------------------------------------------
\* int(a / b) as the floats compute it, for whole a, b > 0.  The double
\* quotient is off the exact one by less than any 1/b, so it truncates to
\* the exact floor unless a / b is a whole number k; then the double may
\* fall just below k and truncate to k - 1 (980 / (980 / 400) gives 399).
\* `below` says that it does.  A quotient of exactly 1 is computed exactly.
float_quotient(a, b, below) ==
    LET k == a \div b
    IN  IF below /\ a % b = 0 /\ k >= 2 THEN k - 1 ELSE k

\* Faulty variant: the canvas is created with the scaled card's size.
compose_on_canvas_cardsize(card_w, card_h, below) ==
    LET target_w == VIDEO_WIDTH - (CARD_MARGIN * 2)
        target_h == VIDEO_HEIGHT - (CARD_MARGIN * 2)
        wider == card_w * target_h > target_w * card_h
        new_w == IF wider THEN target_w
                 ELSE float_quotient(target_h * card_w, card_h, below)
        new_h == IF wider THEN float_quotient(target_w * card_h, card_w, below)
                 ELSE target_h
    IN  [raised |-> new_w < 1 \/ new_h < 1,
         new_w |-> new_w, new_h |-> new_h,
         x |-> 0, y |-> 0,
         out_w |-> new_w, out_h |-> new_h]

\* _compose_on_canvas.  The card is card_w x card_h pixels (both >= 1: a
\* decoded raster image).  card_ratio > target_ratio is decided exactly, as
\* card_w * target_h > target_w * card_h.  Image.resize raises ValueError
\* ("height and width must be > 0") when a requested dimension is below 1,
\* and then nothing is returned.
compose_on_canvas(card_w, card_h, below) ==
    LET target_w == VIDEO_WIDTH - (CARD_MARGIN * 2)
        target_h == VIDEO_HEIGHT - (CARD_MARGIN * 2)
        wider == card_w * target_h > target_w * card_h
        new_w == IF wider THEN target_w
                 ELSE float_quotient(target_h * card_w, card_h, below)
        new_h == IF wider THEN float_quotient(target_w * card_h, card_w, below)
                 ELSE target_h
    IN  [raised |-> new_w < 1 \/ new_h < 1,
         new_w |-> new_w, new_h |-> new_h,
         x |-> (VIDEO_WIDTH - new_w) \div 2,
         y |-> (VIDEO_HEIGHT - new_h) \div 2,
         out_w |-> VIDEO_WIDTH, out_h |-> VIDEO_HEIGHT]

\* ------------------------------------------------------------------------
\* XML attributes
\* ------------------------------------------------------------------------
\* An attribute as elem.get(attr, "") sees it: absent (or empty), a number
\* ("400", "800.5"), a number with a px suffix ("400px"), or text float()
\* rejects ("auto", "100%", "12pt").  v is the number, in 1/Scale pixels.
Absent == [k |-> "absent", v |-> 0]

Num(v) == [k |-> "num", v |-> v]

NumPx(v) == [k |-> "px", v |-> v]

Bad == [k |-> "bad", v |-> 0]

\* The text str() gives for a Python int: "24", where the float 24.0 gives
\* "24.0" (Num).  The two are kept apart for the coordinates the code
\* writes to a <tspan> and reads back on a later call: they are ints when
\* they are the defaults 24 and 120.
IntText(v) == [k |-> "int", v |-> v]

\* str(v) of a Python number
py_str(v, is_int) == IF is_int THEN IntText(v) ELSE Num(v)

\* _get_float: the default when the attribute is absent, empty or not a
\* number; "px" is stripped before float().
get_float(a, default) == IF a.k \in {"num", "px", "int"} THEN a.v ELSE default

\* Faulty variant: the bounding box replaces explicit dimensions even when both are set.
svg_dims_vbfirst(root) ==
    LET w0 == get_float(root.width, 0)
        h0 == get_float(root.height, 0)
        vb == root.viewBox
        use_vb == vb.k \in {"four", "badnum"}
        w == IF use_vb THEN vb.w ELSE w0
        h == IF use_vb THEN vb.h ELSE h0
    IN  [raised |-> use_vb /\ vb.k = "badnum",
         w |-> IF w = 0 THEN Px(500) ELSE w,
         h |-> IF h = 0 THEN Px(800) ELSE h]

\* _svg_dims.  root.viewBox is "absent" (or empty), "four" (four parts, the
\* last two the numbers w and h), "short" (not four parts) or "badnum" (four
\* parts that float() rejects: the ValueError is not caught).
svg_dims(root) ==
    LET w0 == get_float(root.width, 0)
        h0 == get_float(root.height, 0)
        vb == root.viewBox
        use_vb == (w0 = 0 \/ h0 = 0) /\ vb.k \in {"four", "badnum"}
        w == IF use_vb THEN vb.w ELSE w0
        h == IF use_vb THEN vb.h ELSE h0
    IN  [raised |-> use_vb /\ vb.k = "badnum",
         w |-> IF w = 0 THEN Px(500) ELSE w,
         h |-> IF h = 0 THEN Px(800) ELSE h]

\* ------------------------------------------------------------------------
\* Text slot
\* ------------------------------------------------------------------------
\* A <tspan>: its x, y and dy attributes and its text.
Tspan(x, y, dy, text) == [x |-> x, y |-> y, dy |-> dy, text |-> text]

RECURSIVE first_positioned(_)
\* The first <tspan> child with x > 0 or y > 0, as a sequence of 0 or 1.
first_positioned(children) ==
    IF children = <<>> THEN <<>>
    ELSE LET c == Head(children)
         IN  IF get_float(c.x, 0) > 0 \/ get_float(c.y, 0) > 0
             THEN <<c>>
             ELSE first_positioned(Tail(children))

\* _read_tspan_coords.  x_int and y_int tell that the number is the int
\* default of _get_float, not a float.
read_tspan_coords(el) ==
    LET hit == first_positioned(el.children)
    IN  IF hit # <<>>
        THEN [x |-> get_float(hit[1].x, 0), y |-> get_float(hit[1].y, 0),
              x_int |-> hit[1].x.k \in {"absent", "bad"},
              y_int |-> hit[1].y.k \in {"absent", "bad"}]
        ELSE [x |-> get_float(el.x, Px(24)), y |-> get_float(el.y, Px(120)),
              x_int |-> el.x.k \in {"absent", "bad"},
              y_int |-> el.y.k \in {"absent", "bad"}]

\* The font size _inject_text reads: the font-size attribute, else the
\* integer after "font-size:" in the style attribute, else 22.  float() of
\* an attribute that is not a number raises ValueError.
font_size_of(el) ==
    IF el.font_size.k = "absent"
    THEN [raised |-> FALSE,
          v |-> IF el.style.k = "fs" THEN Px(el.style.v) ELSE Px(22)]
    ELSE [raised |-> el.font_size.k = "bad", v |-> el.font_size.v]

\* The <tspan> children _inject_text creates for the wrapped lines.
line_tspans(lines, orig, line_height) ==
    [i \in 1..Len(lines) |->
        IF i = 1
        THEN Tspan(py_str(orig.x, orig.x_int), py_str(orig.y, orig.y_int),
                   Absent, lines[i])
        ELSE Tspan(py_str(orig.x, orig.x_int), Absent, Num(line_height),
                   lines[i])]

NoTextInfo ==
    [x |-> 0, x_int |-> FALSE, start_y |-> 0, text_height |-> 0,
     num_lines |-> 0, line_height |-> 0, chars_per_line |-> 0]

\* _inject_text.  Returns the mutated tree and the returned dict; raised
\* when float() or the division by font_size * 0.55 raises.
\* chars_per_line is kept in the result for the properties; the code only
\* logs it.  x_int tells that the returned x is an int.
inject_text(d, body, svg_width) ==
    LET el == d.text
    IN  IF ~el.present
        THEN [raised |-> FALSE, doc |-> d,
              info |-> [x |-> Px(24), x_int |-> TRUE, start_y |-> Px(120),
                        text_height |-> Px(LINE_HEIGHT), num_lines |-> 1,
                        line_height |-> 0, chars_per_line |-> 0]]
        ELSE LET orig == read_tspan_coords(el)
                 fs == font_size_of(el)
                 font_size == fs.v
                 available_w == svg_width - (orig.x * 2)
             IN  IF fs.raised \/ font_size = 0
                 THEN [raised |-> TRUE, doc |-> d, info |-> NoTextInfo]
                 ELSE LET chars_per_line ==
                              Max(15, TruncDiv(available_w * 100, font_size * 55))
                          line_height == (font_size * 135) \div 100
                          lines == wrap_text(body, chars_per_line)
                      IN  [raised |-> FALSE,
                           doc |-> [d EXCEPT
                               !.text.text = <<>>,
                               !.text.tail = <<>>,
                               !.text.children =
                                   line_tspans(lines, orig, line_height)],
                           info |-> [x |-> orig.x, x_int |-> orig.x_int,
                                     start_y |-> orig.y,
                                     text_height |-> Len(lines) * line_height,
                                     num_lines |-> Len(lines),
                                     line_height |-> line_height,
                                     chars_per_line |-> chars_per_line]]

\* ------------------------------------------------------------------------
\* Image bytes
\* ------------------------------------------------------------------------
\* related_image: kind "none" (None), "empty" (b""), "bad" (bytes PIL cannot
\* decode) or "ok" (bytes PIL decodes to w x h pixels).  magic is what the
\* first four bytes are ("png", "riff", "other"); id names the byte string.
NoImage == [kind |-> "none", magic |-> "other", id |-> "", w |-> 0, h |-> 0]

\* `if image_bytes:`: None and b"" are both false.
truthy(image_bytes) == image_bytes.kind \in {"bad", "ok"}

\* Image.open(...) succeeds
decodes(image_bytes) == image_bytes.kind = "ok"

\* A payload (href): its MIME label and the bytes it carries.
Href(mime, data) == [mime |-> mime, data |-> data]

NoHref == Href("", "")

\* _to_base64_uri: the MIME label is sniffed from the magic bytes; base64 is
\* one-to-one, so the payload is named by the bytes it encodes.
to_base64_uri(image_bytes) ==
    Href(IF image_bytes.magic = "png" THEN "image/png"
         ELSE IF image_bytes.magic = "riff" THEN "image/webp"
         ELSE "image/jpeg",
         image_bytes.id)

\* A transform attribute: "none" (absent), "tpl" (the template's own) or
\* "scale" with the two factors as printed by {:.8f}, in units of 10^-8.
NoTransform == [k |-> "none", sx |-> 0, sy |-> 0]

\* f"{1.0 / w:.8f}" for a width of whole pixels: 10^8 / w rounded to nearest.
fmt_inverse(w) ==
    LET px == w \div Scale IN (2 * 100000000 + px) \div (2 * px)

\* Faulty variant: the two factors change places.
scale_transform_swapped(actual_w, actual_h) ==
    [k |-> "scale", sx |-> fmt_inverse(actual_h), sy |-> fmt_inverse(actual_w)]

scale_transform(actual_w, actual_h) ==
    [k |-> "scale", sx |-> fmt_inverse(actual_w), sy |-> fmt_inverse(actual_h)]

\* ------------------------------------------------------------------------
\* Image slot
\* ------------------------------------------------------------------------
NoImgInfo ==
    [img_width |-> 0, img_height |-> 0, img_x |-> 0, img_y |-> 0,
     has_natural |-> FALSE, natural_width |-> 0]

ImgInfo(w, h, x, y, has_natural, natural_w) ==
    [img_width |-> w, img_height |-> h, img_x |-> x, img_y |-> y,
     has_natural |-> has_natural, natural_width |-> natural_w]

\* svg_width * 0.9 and svg_width * 0.05
default_img_w(svg_width) == (svg_width * 9) \div 10

default_img_x(svg_width) == svg_width \div 20

\* The pixel size the scale is computed from: PIL's, or on a decode error
\* the image element's own width and height (defaults 1000 and 600).
actual_dims(image_bytes, image_el) ==
    IF decodes(image_bytes)
    THEN [w |-> Px(image_bytes.w), h |-> Px(image_bytes.h)]
    ELSE [w |-> get_float(image_el.width, Px(1000)),
          h |-> get_float(image_el.height, Px(600))]

\* _update_pattern_scale, on the <image> nested in the pattern.  1.0 / 0
\* raises ZeroDivisionError.
update_pattern_scale(d, image_bytes) ==
    LET a == actual_dims(image_bytes, d.pattern.img)
        bbox == d.pattern.units = "objectBoundingBox"
        d1 == [d EXCEPT !.pattern.img.width = Num(a.w),
                        !.pattern.img.height = Num(a.h),
                        !.pattern.img.par = "none"]
    IN  IF ~bbox THEN [raised |-> FALSE, doc |-> d1]
        ELSE IF a.w = 0 \/ a.h = 0 THEN [raised |-> TRUE, doc |-> d1]
        ELSE [raised |-> FALSE,
              doc |-> [d1 EXCEPT !.pattern.img.transform = scale_transform(a.w, a.h)]]

\* _replace_pattern_image.  The pattern is found when the tree holds an
\* element with the id the fill names; the <use> names its target by
\* "#id" (use_href = "hash") or not ("nohash"); the target is found when
\* the tree holds the resource image under that id.
replace_pattern_image(d, pattern_id, image_bytes) ==
    LET pat == d.pattern
        image_id_known == pat.has_use /\ pat.use_href = "hash"
    IN  IF ~(pat.present /\ pattern_id = pat.id)
        THEN [raised |-> FALSE, doc |-> d]
        ELSE IF ~image_id_known /\ pat.has_image
        THEN update_pattern_scale(
                 [d EXCEPT !.pattern.img.href = to_base64_uri(image_bytes)],
                 image_bytes)
        ELSE IF ~image_id_known
        THEN [raised |-> FALSE, doc |-> d]
        ELSE IF ~(d.resource.present /\ pat.use_target = d.resource.id)
        THEN [raised |-> FALSE, doc |-> d]
        ELSE LET a == actual_dims(image_bytes, d.resource)
                 d1 == [d EXCEPT !.resource.href = to_base64_uri(image_bytes),
                                 !.resource.width = Num(a.w),
                                 !.resource.height = Num(a.h)]
             IN  IF a.w = 0 \/ a.h = 0 THEN [raised |-> TRUE, doc |-> d1]
                 ELSE [raised |-> FALSE,
                       doc |-> [d1 EXCEPT
                           !.pattern.use_transform = scale_transform(a.w, a.h),
                           !.resource.par = "none"]]

\* rect_el.get(attr, "0"): the attribute's own text, "0" when absent.
raw_or_zero(a) == IF a.k = "absent" THEN Num(0) ELSE a

\* _convert_group_to_image: a new <image> child of the group copies the
\* rect's x and y and the rect is removed from the group.  float(rx) is not
\* guarded (and strips no "px").
convert_group_to_image(d, image_bytes, width, height) ==
    LET rect == d.image.rect
        data_uri == to_base64_uri(image_bytes)
        d1 == [d EXCEPT !.image.child =
                  [present |-> TRUE, x |-> raw_or_zero(rect.x),
                   y |-> raw_or_zero(rect.y), width |-> Num(width),
                   height |-> Num(height), href |-> data_uri,
                   par |-> "xMidYMid meet"]]
    IN  IF rect.rx.k \in {"px", "bad"}
        THEN [raised |-> TRUE, doc |-> d1]
        ELSE [raised |-> FALSE, doc |-> [d1 EXCEPT !.image.rect.intree = FALSE]]

\* _inject_image_figma_group
inject_image_figma_group(d, image_bytes, new_y, svg_width) ==
    LET rect == d.image.rect
    IN  IF ~rect.present
        THEN [raised |-> FALSE, doc |-> d,
              info |-> ImgInfo(default_img_w(svg_width), Px(DEFAULT_IMAGE_HEIGHT),
                               default_img_x(svg_width), new_y,
                               TRUE, default_img_w(svg_width))]
        ELSE LET img_x == get_float(rect.x, default_img_x(svg_width))
                 img_w == get_float(rect.width, default_img_w(svg_width))
                 img_h0 == get_float(rect.height, Px(DEFAULT_IMAGE_HEIGHT))
                 ok == truthy(image_bytes) /\ decodes(image_bytes)
                 img_h == IF ok THEN (img_w * image_bytes.h) \div image_bytes.w
                          ELSE img_h0
                 natural_w == IF ok THEN Px(image_bytes.w) ELSE img_w
                 d1 == [d EXCEPT !.image.rect.height = Num(img_h)]
                 r == IF ~truthy(image_bytes) THEN [raised |-> FALSE, doc |-> d]
                      ELSE IF rect.fill.k = "url"
                      THEN replace_pattern_image(d1, rect.fill.ref, image_bytes)
                      ELSE convert_group_to_image(d1, image_bytes, img_w, img_h)
             IN  IF r.raised
                 THEN [raised |-> TRUE, doc |-> r.doc, info |-> NoImgInfo]
                 ELSE [raised |-> FALSE,
                       doc |-> [r.doc EXCEPT !.image.rect.y = Num(new_y)],
                       info |-> ImgInfo(img_w, img_h, img_x, new_y, TRUE, natural_w)]

\* Faulty variant: the height is the width times the aspect ratio.
inject_image_simple_times(d, image_bytes, new_y, svg_width) ==
    LET el == d.image
        img_x == get_float(el.x, default_img_x(svg_width))
        img_w == get_float(el.width, default_img_w(svg_width))
        img_h0 == get_float(el.height, Px(DEFAULT_IMAGE_HEIGHT))
        ok == truthy(image_bytes) /\ decodes(image_bytes)
        img_h == IF ok THEN (img_w * image_bytes.w) \div image_bytes.h ELSE img_h0
        natural_w == IF ok THEN Px(image_bytes.w) ELSE img_w
        d1 == IF truthy(image_bytes)
              THEN [d EXCEPT !.image.href = to_base64_uri(image_bytes),
                             !.image.width = Num(img_w),
                             !.image.height = Num(img_h),
                             !.image.par = "xMidYMid meet"]
              ELSE d
    IN  [raised |-> FALSE,
         doc |-> [d1 EXCEPT !.image.y = Num(new_y)],
         info |-> ImgInfo(img_w, img_h, img_x, new_y, TRUE, natural_w)]

\* _inject_image_simple
inject_image_simple(d, image_bytes, new_y, svg_width) ==
    LET el == d.image
        img_x == get_float(el.x, default_img_x(svg_width))
        img_w == get_float(el.width, default_img_w(svg_width))
        img_h0 == get_float(el.height, Px(DEFAULT_IMAGE_HEIGHT))
        ok == truthy(image_bytes) /\ decodes(image_bytes)
        img_h == IF ok THEN (img_w * image_bytes.h) \div image_bytes.w ELSE img_h0
        natural_w == IF ok THEN Px(image_bytes.w) ELSE img_w
        d1 == IF truthy(image_bytes)
              THEN [d EXCEPT !.image.href = to_base64_uri(image_bytes),
                             !.image.width = Num(img_w),
                             !.image.height = Num(img_h),
                             !.image.par = "xMidYMid meet"]
              ELSE d
    IN  [raised |-> FALSE,
         doc |-> [d1 EXCEPT !.image.y = Num(new_y)],
         info |-> ImgInfo(img_w, img_h, img_x, new_y, TRUE, natural_w)]

\* _inject_image
inject_image(d, image_bytes, new_y, svg_width) ==
    IF d.image.kind = "absent"
    THEN [raised |-> FALSE, doc |-> d,
          info |-> ImgInfo(default_img_w(svg_width), Px(DEFAULT_IMAGE_HEIGHT),
                           default_img_x(svg_width), new_y, FALSE, 0)]
    ELSE IF d.image.kind = "g"
    THEN inject_image_figma_group(d, image_bytes, new_y, svg_width)
    ELSE inject_image_simple(d, image_bytes, new_y, svg_width)

\* ------------------------------------------------------------------------
\* Source slot and document size
\* ------------------------------------------------------------------------
\* The optional argument x of _inject_source.
NoX == [given |-> FALSE, v |-> 0, is_int |-> FALSE]

GivenX(v, is_int) == [given |-> TRUE, v |-> v, is_int |-> is_int]

\* _inject_source
inject_source(d, source_text, new_y, x) ==
    LET el == d.source
        orig == read_tspan_coords(el)
        x1 == IF x.given THEN x.v ELSE IF orig.x > 0 THEN orig.x ELSE Px(24)
        x1_int == IF x.given THEN x.is_int ELSE orig.x_int \/ ~(orig.x > 0)
    IN  IF ~el.present THEN d
        ELSE [d EXCEPT !.source.text = <<>>,
                       !.source.tail = <<>>,
                       !.source.children =
                           <<Tspan(py_str(x1, x1_int), Num(new_y), Absent,
                                   source_text)>>]

\* The test _resize_svg applies to a <rect>: at least 0.9 of the width and
\* a fill that is no url(...) reference.
is_background(rect, svg_width) ==
    /\ get_float(rect.width, 0) * 10 >= svg_width * 9
    /\ rect.fill.k # "url"

\* Faulty variant: the viewBox keeps the template's value.
resize_svg_keepbox(d, svg_width, new_height) ==
    [d EXCEPT !.root.width = Num(Px(ToInt(svg_width))),
              !.root.height = Num(Px(ToInt(new_height)))]

\* _resize_svg.  root.iter() visits the rects in document order: the
\* background rect, then the rect of the main_image group while it is in
\* the tree; the first one that passes the test is expanded.
resize_svg(d, svg_width, new_height) ==
    LET w == Px(ToInt(svg_width))
        h == Px(ToInt(new_height))
        d1 == [d EXCEPT !.root.width = Num(w),
                        !.root.height = Num(h),
                        !.root.viewBox = [k |-> "four", w |-> w, h |-> h]]
        g == d.image
    IN  IF d.bg.present /\ is_background(d.bg, svg_width)
        THEN [d1 EXCEPT !.bg.height = Num(h)]
        ELSE IF g.kind = "g" /\ g.rect.present /\ g.rect.intree
                /\ is_background(g.rect, svg_width)
        THEN [d1 EXCEPT !.image.rect.height = Num(h)]
        ELSE d1

\* ------------------------------------------------------------------------
\* build_card_svg: the layout pass
\* ------------------------------------------------------------------------
\* The allowance for the source line: the literal 10 of
\* `new_height = source_y + BOTTOM_PADDING + 10`.
SOURCE_LINE_HEIGHT == 10

\* Faulty variant: the original height is not taken as a floor.
new_height_of_nofloor(source_y, original_h) ==
    source_y + Px(BOTTOM_PADDING) + Px(SOURCE_LINE_HEIGHT)

\* new_height = max(source_y + BOTTOM_PADDING + 10, original_h)
new_height_of(source_y, original_h) ==
    Max(source_y + Px(BOTTOM_PADDING) + Px(SOURCE_LINE_HEIGHT), original_h)

\* Faulty variant: the widened card is not held to MIN_CARD_WIDTH.
final_w_of_nomin(svg_w, related_image, img_info) ==
    IF /\ truthy(related_image)
       /\ img_info.has_natural /\ img_info.natural_width > 0
       /\ decodes(related_image)
       /\ related_image.w * 10 > related_image.h * 12
    THEN LET content_w == img_info.img_width
             desired_w == content_w + Px(SIDE_PADDING * 2)
         IN  Max(svg_w, Min(desired_w, Px(MAX_CARD_WIDTH)))
    ELSE svg_w

\* The dynamic width: widened only for a decodable image whose aspect ratio
\* exceeds 1.2 (w / h > 1.2, compared exactly as 10 w > 12 h).
final_w_of(svg_w, related_image, img_info) ==
    IF /\ truthy(related_image)
       /\ img_info.has_natural /\ img_info.natural_width > 0
       /\ decodes(related_image)
       /\ related_image.w * 10 > related_image.h * 12
    THEN LET content_w == img_info.img_width
             desired_w == content_w + Px(SIDE_PADDING * 2)
         IN  Max(Max(svg_w, Min(desired_w, Px(MAX_CARD_WIDTH))), Px(MIN_CARD_WIDTH))
    ELSE svg_w

\* image_source if image_source else "source: web"
DefaultSource == <<"s", "o", "u", "r", "c", "e", ":", " ", "w", "e", "b">>

source_text_of(image_source) ==
    IF image_source # <<>> THEN image_source ELSE DefaultSource

\* ------------------------------------------------------------------------
\* Templates: the trees the parser can hand to build_card_svg
\* ------------------------------------------------------------------------
NoViewBox == [k |-> "absent", w |-> 0, h |-> 0]

ViewBox(w, h) == [k |-> "four", w |-> w, h |-> h]

Fill(k, ref) == [k |-> k, ref |-> ref]

Root(width, height, viewBox) ==
    [width |-> width, height |-> height, viewBox |-> viewBox]

\* The root elements of the modelled templates.
Roots ==
    { Root(Num(Px(400)), Num(Px(800)), NoViewBox),
      Root(NumPx(Px(400)), NumPx(Px(800)), ViewBox(Px(400), Px(800))),
      Root(Absent, Absent, ViewBox(Px(500), Px(900))),
      Root(Absent, Absent, NoViewBox),
      Root(Num(Px(400)), Absent, ViewBox(Px(600), Px(900))),
      Root(Num(Px(400)), Num(Px(800) + 50), NoViewBox),
      Root(Num(Px(400) + 40), Num(Px(800)), NoViewBox),
      Root(Num(Px(1000)), Num(Px(800)), NoViewBox),
      Root(Num(0), Num(0), [k |-> "short", w |-> 0, h |-> 0]),
      Root(Bad, Bad, ViewBox(Px(400), Px(800))),
      Root(Absent, Num(Px(800)), [k |-> "badnum", w |-> 0, h |-> 0]),
      Root(Num(-Px(400)), Num(-Px(800)), NoViewBox) }

\* The background <rect> of a template: the first rect of the tree, as wide
\* as the root says (500 when the root gives no number).
Background(root) ==
    [present |-> TRUE,
     width |-> Num(get_float(root.width, Px(500))),
     height |-> Num(get_float(root.height, Px(800))),
     fill |-> Fill("color", "")]

TextEl(x, y, font_size, style, children) ==
    [present |-> TRUE, x |-> x, y |-> y, font_size |-> font_size,
     style |-> style, text |-> <<>>, tail |-> <<"\n">>, children |-> children]

NoStyle == [k |-> "none", v |-> 0]

AbsentText ==
    [present |-> FALSE, x |-> Absent, y |-> Absent, font_size |-> Absent,
     style |-> NoStyle, text |-> <<>>, tail |-> <<>>, children |-> <<>>]

Old == <<"o", "l", "d">>

\* The input_text slots of the modelled templates.
TextSlots ==
    { AbsentText,
      \* Figma: the coordinates are on the <tspan>
      TextEl(Absent, Absent, Num(Px(22)), NoStyle,
             <<Tspan(Num(Px(24)), Num(Px(120)), Absent, Old)>>),
      \* the coordinates are on the <text>, no font size anywhere
      TextEl(Num(Px(24)), Num(Px(100)), Absent, NoStyle, <<>>),
      \* a first <tspan> at 0,0 and coordinates on the <text>
      TextEl(Num(Px(30)), Num(Px(90)), NumPx(Px(22)), NoStyle,
             <<Tspan(Num(0), Num(0), Absent, Old)>>),
      \* two <tspan>s, the font size in the style attribute
      TextEl(Num(Px(30)), Num(Px(90)), Absent, [k |-> "fs", v |-> 18],
             <<Tspan(Num(0), Num(0), Absent, Old),
               Tspan(Num(Px(40)), Num(Px(200)), Absent, Old)>>),
      \* font-size="12pt"
      TextEl(Absent, Absent, Bad, NoStyle,
             <<Tspan(Num(Px(24)), Num(Px(120)), Absent, Old)>>),
      \* font-size="0"
      TextEl(Absent, Absent, Num(0), NoStyle,
             <<Tspan(Num(Px(24)), Num(Px(120)), Absent, Old)>>),
      \* origin x beyond half of the width
      TextEl(Num(Px(300)), Num(Px(100)), Num(Px(22)), NoStyle, <<>>) }

TplHref == Href("image/png", "template")

NoRect ==
    [present |-> FALSE, intree |-> FALSE, x |-> Absent, y |-> Absent,
     width |-> Absent, height |-> Absent, fill |-> Fill("absent", ""),
     rx |-> Absent]

Rect(x, y, width, height, fill, rx) ==
    [present |-> TRUE, intree |-> TRUE, x |-> x, y |-> y, width |-> width,
     height |-> height, fill |-> fill, rx |-> rx]

NoChild ==
    [present |-> FALSE, x |-> Absent, y |-> Absent, width |-> Absent,
     height |-> Absent, href |-> NoHref, par |-> ""]

AbsentImage ==
    [kind |-> "absent", x |-> Absent, y |-> Absent, width |-> Absent,
     height |-> Absent, href |-> NoHref, par |-> "",
     rect |-> NoRect, child |-> NoChild]

\* <image id="main_image" .../>
DirectImage(x, y, width, height) ==
    [AbsentImage EXCEPT !.kind = "image", !.x = x, !.y = y, !.width = width,
                        !.height = height, !.href = TplHref]

\* <g id="main_image"> with its first <rect> child (or none)
Group(rect) == [AbsentImage EXCEPT !.kind = "g", !.rect = rect]

FigmaRect(fill, rx) ==
    Rect(Num(Px(24)), Num(Px(200)), Num(Px(300)), Num(Px(200)), fill, rx)

NestedImage(width, height) ==
    [href |-> TplHref, width |-> width, height |-> height, par |-> "",
     transform |-> NoTransform]

NoPattern ==
    [present |-> FALSE, id |-> "", units |-> "", has_use |-> FALSE,
     use_href |-> "", use_target |-> "",
     use_transform |-> NoTransform, has_image |-> FALSE,
     img |-> [href |-> NoHref, width |-> Absent, height |-> Absent, par |-> "",
              transform |-> NoTransform]]

TplTransform == [k |-> "tpl", sx |-> 0, sy |-> 0]

\* <pattern id="p"><use xlink:href=... transform=.../></pattern>
UsePattern(use_href, use_target) ==
    [NoPattern EXCEPT !.present = TRUE, !.id = "p",
                      !.units = "objectBoundingBox", !.has_use = TRUE,
                      !.use_href = use_href, !.use_target = use_target,
                      !.use_transform = TplTransform]

\* <pattern id="p"><image .../></pattern>
ImagePattern(units) ==
    [NoPattern EXCEPT !.present = TRUE, !.id = "p", !.units = units,
                      !.has_image = TRUE,
                      !.img = NestedImage(Num(Px(1000)), Num(Px(600)))]

EmptyPattern == [NoPattern EXCEPT !.present = TRUE, !.id = "p"]

NoResource ==
    [present |-> FALSE, id |-> "", href |-> NoHref, width |-> Absent,
     height |-> Absent, par |-> ""]

\* <image id="img" .../> in <defs>
Resource(width, height) ==
    [present |-> TRUE, id |-> "img", href |-> TplHref, width |-> width,
     height |-> height, par |-> ""]

ImagePart(image, pattern, resource) ==
    [image |-> image, pattern |-> pattern, resource |-> resource]

\* The main_image slots of the modelled templates, each with the pattern
\* and the image resource the tree holds beside it.
ImageParts ==
    { ImagePart(AbsentImage, NoPattern, NoResource),
      ImagePart(DirectImage(Num(Px(50)), Num(Px(200)), Num(Px(300)), Num(Px(200))),
                NoPattern, NoResource),
      ImagePart(DirectImage(Absent, Absent, Absent, Absent), NoPattern, NoResource),
      ImagePart(Group(NoRect), NoPattern, NoResource),
      \* the Figma chain: rect -> pattern -> use -> image
      ImagePart(Group(FigmaRect(Fill("url", "p"), Absent)),
                UsePattern("hash", "img"), Resource(Num(Px(1000)), Num(Px(600)))),
      \* the same with an image resource of width 0
      ImagePart(Group(FigmaRect(Fill("url", "p"), Absent)),
                UsePattern("hash", "img"), Resource(Num(0), Num(Px(600)))),
      \* the pattern holds the image itself
      ImagePart(Group(FigmaRect(Fill("url", "p"), Absent)),
                ImagePattern("objectBoundingBox"), NoResource),
      ImagePart(Group(FigmaRect(Fill("url", "p"), Absent)),
                ImagePattern("userSpaceOnUse"), NoResource),
      \* no url(#...) fill
      ImagePart(Group(FigmaRect(Fill("color", ""), Num(Px(8)))),
                NoPattern, NoResource),
      ImagePart(Group(FigmaRect(Fill("absent", ""), NumPx(Px(8)))),
                NoPattern, NoResource),
      \* the fill names a pattern the tree does not hold
      ImagePart(Group(FigmaRect(Fill("url", "q"), Absent)),
                UsePattern("hash", "img"), Resource(Num(Px(1000)), Num(Px(600)))),
      \* a pattern with neither <use> nor <image>
      ImagePart(Group(FigmaRect(Fill("url", "p"), Absent)),
                EmptyPattern, NoResource),
      \* the <use> names an image the tree does not hold
      ImagePart(Group(FigmaRect(Fill("url", "p"), Absent)),
                UsePattern("hash", "gone"), NoResource) }

AbsentSource ==
    [present |-> FALSE, x |-> Absent, y |-> Absent, text |-> <<>>,
     tail |-> <<>>, children |-> <<>>]

\* The source slots of the modelled templates.
SourceSlots ==
    { AbsentSource,
      [present |-> TRUE, x |-> Absent, y |-> Absent, text |-> <<>>,
       tail |-> <<"\n">>,
       children |-> <<Tspan(Num(Px(24)), Num(Px(700)), Absent, Old)>>] }

Template(root, text, ip, source) ==
    [root |-> root, bg |-> Background(root), text |-> text,
     image |-> ip.image, pattern |-> ip.pattern, resource |-> ip.resource,
     source |-> source]

\* The well-formed templates of the model.
Templates ==
    { Template(r, t, ip, s) :
        r \in Roots, t \in TextSlots, ip \in ImageParts, s \in SourceSlots }

\* The value of `root` before the template is parsed.
NoDoc == Template(Root(Absent, Absent, NoViewBox), AbsentText,
                  ImagePart(AbsentImage, NoPattern, NoResource), AbsentSource)

\* ------------------------------------------------------------------------
\* Arguments of build_card_svg
\* ------------------------------------------------------------------------
\* 120 characters: twenty five-letter words, a blank after each
Body120 ==
    [i \in 1..120 |->
        IF i % 6 = 0 THEN " " ELSE <<"a", "b", "c", "d", "e">>[i % 6]]

\* one word of 40 characters
LongWord == [i \in 1..40 |-> "x"]

Bodies == { <<>>, <<"a", "b", " ", "c", "d">>, Body120, LongWord }

Images ==
    { NoImage,
      [kind |-> "empty", magic |-> "other", id |-> "", w |-> 0, h |-> 0],
      [kind |-> "bad", magic |-> "other", id |-> "junk", w |-> 0, h |-> 0],
      [kind |-> "ok", magic |-> "png", id |-> "wide", w |-> 1200, h |-> 600],
      [kind |-> "ok", magic |-> "riff", id |-> "tall", w |-> 600, h |-> 1200] }

Sources == { <<>>, <<"s", "r", "c">> }

\* What channel.svg_template_path leads to: no file, a file that is not
\* well-formed XML, or one of the templates.
Files ==
    [kind : {"ok"}, tpl : Templates]
    \cup [kind : {"missing", "malformed"}, tpl : {NoDoc}]

\* ------------------------------------------------------------------------
\* build_card_svg: the call, step by step
\* ------------------------------------------------------------------------
NoCompose ==
    [raised |-> FALSE, new_w |-> 0, new_h |-> 0, x |-> 0, y |-> 0,
     out_w |-> 0, out_h |-> 0]

NoLay ==
    [svg_w |-> 0, original_h |-> 0, text_info |-> NoTextInfo,
     text_bottom |-> 0, image_y |-> 0, img_info |-> NoImgInfo,
     image_bottom |-> 0, source_text |-> <<>>, source_y |-> 0,
     new_height |-> 0, final_w |-> 0, card_w |-> 0, card_h |-> 0,
     composed |-> NoCompose]

Pending == [kind |-> "pending", at |-> "", out_w |-> 0, out_h |-> 0]

\* `return None` at the named step
ReturnNone(at) == [kind |-> "none", at |-> at, out_w |-> 0, out_h |-> 0]

\* an exception leaves build_card_svg at the named step
Raised(at) == [kind |-> "raised", at |-> at, out_w |-> 0, out_h |-> 0]

\* the PNG bytes of the composed canvas
ReturnPng(w, h) == [kind |-> "png", at |-> "compose", out_w |-> w, out_h |-> h]

\* The call's own state: its position, the tree, its locals, its outcome.
Frame(p, d, l, r) == [pc |-> p, doc |-> d, lay |-> l, result |-> r]

StartFrame == Frame("start", NoDoc, NoLay, Pending)

\* Faulty variant: a missing template file does not end the call.
do_check_skip(f, file) ==
    IF f.pc # "start" THEN f
    ELSE [f EXCEPT !.pc = "read"]

\* lines 561-564: no template path, or no file there
do_check(f, file) ==
    IF f.pc # "start" THEN f
    ELSE IF file.kind = "missing"
    THEN [f EXCEPT !.pc = "returned", !.result = ReturnNone("template")]
    ELSE [f EXCEPT !.pc = "read"]

\* Faulty variant: the parse error is swallowed and the call goes on.
do_parse_swallow(f, file) ==
    IF f.pc # "read" THEN f
    ELSE [f EXCEPT !.pc = "parsed", !.doc = file.tpl]

\* lines 566-572: read and parse; any exception returns None
do_parse(f, file) ==
    IF f.pc # "read" THEN f
    ELSE IF file.kind = "malformed"
    THEN [f EXCEPT !.pc = "returned", !.result = ReturnNone("parse")]
    ELSE [f EXCEPT !.pc = "parsed", !.doc = file.tpl]

\* line 574
do_dims(f) ==
    IF f.pc # "parsed" THEN f
    ELSE LET r == svg_dims(f.doc.root)
         IN  IF r.raised
             THEN [f EXCEPT !.pc = "raised", !.result = Raised("dims")]
             ELSE [f EXCEPT !.pc = "measured",
                            !.lay.svg_w = r.w, !.lay.original_h = r.h]

\* lines 576-578
do_text(f, body) ==
    IF f.pc # "measured" THEN f
    ELSE LET r == inject_text(f.doc, body, f.lay.svg_w)
         IN  IF r.raised
             THEN [f EXCEPT !.pc = "raised", !.result = Raised("text")]
             ELSE [f EXCEPT !.pc = "text",
                            !.doc = r.doc,
                            !.lay.text_info = r.info,
                            !.lay.text_bottom =
                                r.info.start_y + r.info.text_height]

\* lines 580-583
do_image(f, related_image) ==
    IF f.pc # "text" THEN f
    ELSE LET image_y == f.lay.text_bottom + Px(TEXT_TO_IMAGE_GAP)
             r == inject_image(f.doc, related_image, image_y, f.lay.svg_w)
         IN  IF r.raised
             THEN [f EXCEPT !.pc = "raised", !.result = Raised("image"),
                            !.doc = r.doc]
             ELSE [f EXCEPT !.pc = "image",
                            !.doc = r.doc,
                            !.lay.image_y = image_y,
                            !.lay.img_info = r.info,
                            !.lay.image_bottom =
                                r.info.img_y + r.info.img_height]

\* lines 585-588
do_source(f, image_source) ==
    IF f.pc # "image" THEN f
    ELSE LET source_text == source_text_of(image_source)
             source_y == f.lay.image_bottom + Px(IMAGE_TO_SOURCE_GAP)
         IN  [f EXCEPT !.pc = "source",
                       !.doc = inject_source(f.doc, source_text, source_y,
                                             GivenX(f.lay.text_info.x,
                                                    f.lay.text_info.x_int)),
                       !.lay.source_text = source_text,
                       !.lay.source_y = source_y]

\* lines 590-611
do_resize(f, related_image) ==
    IF f.pc # "source" THEN f
    ELSE LET new_height == new_height_of(f.lay.source_y, f.lay.original_h)
             final_w == final_w_of(f.lay.svg_w, related_image, f.lay.img_info)
         IN  [f EXCEPT !.pc = "resized",
                       !.doc = resize_svg(f.doc, final_w, new_height),
                       !.lay.new_height = new_height,
                       !.lay.final_w = final_w]

\* lines 613-626: cairosvg.svg2png at int(final_w) x int(new_height).  It
\* may fail on any document (ok = FALSE) and cannot succeed for a size
\* below one pixel.  Any exception returns None.
do_rasterize(f, ok) ==
    IF f.pc # "resized" THEN f
    ELSE LET w == ToInt(f.lay.final_w)
             h == ToInt(f.lay.new_height)
         IN  IF ok /\ w >= 1 /\ h >= 1
             THEN [f EXCEPT !.pc = "rasterized",
                            !.lay.card_w = w, !.lay.card_h = h]
             ELSE [f EXCEPT !.pc = "returned",
                            !.result = ReturnNone("rasterize")]

\* line 629
do_compose(f, below) ==
    IF f.pc # "rasterized" THEN f
    ELSE LET c == compose_on_canvas(f.lay.card_w, f.lay.card_h, below)
         IN  IF c.raised
             THEN [f EXCEPT !.pc = "raised", !.result = Raised("compose"),
                            !.lay.composed = c]
             ELSE [f EXCEPT !.pc = "returned",
                            !.result = ReturnPng(c.out_w, c.out_h),
                            !.lay.composed = c]

\* One call on a freshly parsed template, up to and including _inject_image.
upto_image(tpl, body, related_image) ==
    do_image(do_text(do_dims(Frame("parsed", tpl, NoLay, Pending)), body),
             related_image)

\* Faulty variant: the second run works on the tree the first run left,
\* not on a freshly parsed copy of the template.
injected_again(tpl, body, related_image, image_source) ==
    LET first == do_resize(do_source(upto_image(tpl, body, related_image),
                                     image_source), related_image)
    IN  do_resize(do_source(upto_image(first.doc, body, related_image),
                            image_source), related_image)

\* The injection sequence of one call on a freshly parsed template:
\* _svg_dims, _inject_text, _inject_image, _inject_source, _resize_svg.
injected(tpl, body, related_image, image_source) ==
    do_resize(do_source(upto_image(tpl, body, related_image), image_source),
              related_image)

Idle == [pc |-> "idle"]

Here == Frame(pc, doc, lay, result)

Becomes(f) ==
    /\ pc' = f.pc
    /\ doc' = f.doc
    /\ lay' = f.lay
    /\ result' = f.result

Init ==
    /\ pc = "start"
    /\ \E file \in Files :
          inp = [file |-> file.kind, tpl |-> file.tpl, body |-> <<>>,
                 image |-> NoImage, source |-> <<>>]
    /\ doc = NoDoc
    /\ lay = NoLay
    /\ result = Pending
    /\ wrap = Idle
    /\ canvas = Idle
    /\ pair = Idle
    /\ cycler = Idle
    /\ gemini = Idle
    /\ source_call = Idle
    /\ text_call = Idle

File == [kind |-> inp.file, tpl |-> inp.tpl]

CheckTemplate ==
    /\ pc = "start"
    /\ Becomes(do_check(Here, File))
    /\ UNCHANGED <<inp, wrap, canvas, pair, cycler, gemini,
                   source_call, text_call>>

ParseSvg ==
    /\ pc = "read"
    /\ Becomes(do_parse(Here, File))
    /\ UNCHANGED <<inp, wrap, canvas, pair, cycler, gemini,
                   source_call, text_call>>

Dims ==
    /\ pc = "parsed"
    /\ Becomes(do_dims(Here))
    /\ UNCHANGED <<inp, wrap, canvas, pair, cycler, gemini,
                   source_call, text_call>>

InjectText ==
    /\ pc = "measured"
    /\ \E body \in Bodies :
          /\ inp' = [inp EXCEPT !.body = body]
          /\ Becomes(do_text(Here, body))
    /\ UNCHANGED <<wrap, canvas, pair, cycler, gemini,
                   source_call, text_call>>

InjectImage ==
    /\ pc = "text"
    /\ \E related_image \in Images :
          /\ inp' = [inp EXCEPT !.image = related_image]
          /\ Becomes(do_image(Here, related_image))
    /\ UNCHANGED <<wrap, canvas, pair, cycler, gemini,
                   source_call, text_call>>

InjectSource ==
    /\ pc = "image"
    /\ \E image_source \in Sources :
          /\ inp' = [inp EXCEPT !.source = image_source]
          /\ Becomes(do_source(Here, image_source))
    /\ UNCHANGED <<wrap, canvas, pair, cycler, gemini,
                   source_call, text_call>>

Resize ==
    /\ pc = "source"
    /\ Becomes(do_resize(Here, inp.image))
    /\ UNCHANGED <<inp, wrap, canvas, pair, cycler, gemini,
                   source_call, text_call>>

Rasterize ==
    /\ pc = "resized"
    /\ \E ok \in BOOLEAN : Becomes(do_rasterize(Here, ok))
    /\ UNCHANGED <<inp, wrap, canvas, pair, cycler, gemini,
                   source_call, text_call>>

Compose ==
    /\ pc = "rasterized"
    /\ \E below \in BOOLEAN : Becomes(do_compose(Here, below))
    /\ UNCHANGED <<inp, wrap, canvas, pair, cycler, gemini,
                   source_call, text_call>>

Next ==
    \/ CheckTemplate
    \/ ParseSvg
    \/ Dims
    \/ InjectText
    \/ InjectImage
    \/ InjectSource
    \/ Resize
    \/ Rasterize
    \/ Compose

Spec == Init /\ [][Next]_vars

\* ------------------------------------------------------------------------
\* _wrap_text alone, on every short body and small budget
\* ------------------------------------------------------------------------
Alphabet == {"a", "b", " "}

ShortBodies == UNION { [1..n -> Alphabet] : n \in 0..MaxBodyLen }

InitWrap ==
    /\ wrap \in [pc : {"call"}, text : ShortBodies, max_chars : 0..MaxBudget,
                 lines : {<<>>}]
    /\ canvas = Idle
    /\ pc = "idle"
    /\ inp = [file |-> "missing", tpl |-> NoDoc, body |-> <<>>,
              image |-> NoImage, source |-> <<>>]
    /\ doc = NoDoc
    /\ lay = NoLay
    /\ result = Pending
    /\ pair = Idle
    /\ cycler = Idle
    /\ gemini = Idle
    /\ source_call = Idle
    /\ text_call = Idle

WrapCall ==
    /\ wrap.pc = "call"
    /\ wrap' = [wrap EXCEPT !.pc = "ret",
                            !.lines = wrap_text(wrap.text, wrap.max_chars)]
    /\ UNCHANGED <<canvas, pc, inp, doc, lay, result, pair, cycler, gemini,
                   source_call, text_call>>

NextWrap == WrapCall

SpecWrap == InitWrap /\ [][NextWrap]_vars

\* ------------------------------------------------------------------------
\* _compose_on_canvas alone, on cards of every shape
\* ------------------------------------------------------------------------
CardDims ==
    {1, 2, 3, 350, 400, 540, 800, 979, 980, 981, 1080, 1820, 1821, 1920,
     MaxCardDim}

InitCanvas ==
    /\ canvas \in [pc : {"call"}, card_w : CardDims, card_h : CardDims,
                   res : {NoCompose}]
    /\ wrap = Idle
    /\ pc = "idle"
    /\ inp = [file |-> "missing", tpl |-> NoDoc, body |-> <<>>,
              image |-> NoImage, source |-> <<>>]
    /\ doc = NoDoc
    /\ lay = NoLay
    /\ result = Pending
    /\ pair = Idle
    /\ cycler = Idle
    /\ gemini = Idle
    /\ source_call = Idle
    /\ text_call = Idle

ComposeCall ==
    /\ canvas.pc = "call"
    /\ \E below \in BOOLEAN :
          canvas' = [canvas EXCEPT
              !.pc = "ret",
              !.res = compose_on_canvas(canvas.card_w, canvas.card_h, below)]
    /\ UNCHANGED <<wrap, pc, inp, doc, lay, result, pair, cycler, gemini,
                   source_call, text_call>>

NextCanvas == ComposeCall

SpecCanvas == InitCanvas /\ [][NextCanvas]_vars

\* ------------------------------------------------------------------------
\* Two overlapping calls of build_card_svg on one template file
\* ------------------------------------------------------------------------
Callers == {1, 2}

\* The template files of the two-call runs: one root, the Figma text slot,
\* a source slot, and one image slot of each structural variant.
PairFiles ==
    { file \in Files :
        \/ file.kind # "ok"
        \/ /\ file.tpl.root = Root(Num(Px(400)), Num(Px(800)), NoViewBox)
           /\ file.tpl.text.present
           /\ file.tpl.text.font_size = Num(Px(22))
           /\ file.tpl.text.children # <<>>
           /\ file.tpl.source.present
           /\ \/ file.tpl.image.kind = "image" /\ file.tpl.image.x # Absent
              \/ /\ file.tpl.image.kind = "g"
                 /\ file.tpl.image.rect.present
                 /\ \/ file.tpl.pattern = UsePattern("hash", "img")
                       /\ file.tpl.image.rect.fill = Fill("url", "p")
                       /\ file.tpl.resource.width = Num(Px(1000))
                    \/ file.tpl.image.rect.fill = Fill("color", "") }

\* The arguments of one call, with what its rasterizer run and its
\* canvas division will give.
PairArgs ==
    [body : {<<"a", "b", " ", "c", "d">>, Body120},
     image : {i \in Images : i.id \in {"", "wide"} /\ i.kind # "empty"},
     source : {<<"s", "r", "c">>},
     ok : BOOLEAN,
     below : BOOLEAN]

\* Faulty variant: a call is handed the tree another call is working on.
shared_tree(p, i) ==
    IF \E j \in Callers \ {i} : p.call[j].f.doc # NoDoc
    THEN p.call[CHOOSE j \in Callers \ {i} : p.call[j].f.doc # NoDoc].f.doc
    ELSE p.disk.tpl

\* lines 568-569: read_text and ET.fromstring build a new tree from the
\* file's text on every call.
parsed_tree(p, i) == p.disk.tpl

\* The next step of a call at position f.pc, on the tree `tree` if it parses.
one_step(f, kind, tree, a) ==
    LET file == [kind |-> kind, tpl |-> tree]
    IN  CASE f.pc = "start" -> do_check(f, file)
          [] f.pc = "read" -> do_parse(f, file)
          [] f.pc = "parsed" -> do_dims(f)
          [] f.pc = "measured" -> do_text(f, a.body)
          [] f.pc = "text" -> do_image(f, a.image)
          [] f.pc = "image" -> do_source(f, a.source)
          [] f.pc = "source" -> do_resize(f, a.image)
          [] f.pc = "resized" -> do_rasterize(f, a.ok)
          [] f.pc = "rasterized" -> do_compose(f, a.below)
          [] OTHER -> f

RECURSIVE run_alone(_, _, _, _)
\* One call with nothing else running, from f until it stands at `stop`
\* or has ended.
run_alone(f, file, a, stop) ==
    IF f.pc = stop \/ f.pc \in {"returned", "raised"} THEN f
    ELSE run_alone(one_step(f, file.kind, file.tpl, a), file, a, stop)

InitPair ==
    /\ \E file \in PairFiles, a1 \in PairArgs, a2 \in PairArgs :
          pair = [pc |-> "run", disk |-> file,
                  call |-> [i \in Callers |->
                              [f |-> StartFrame,
                               a |-> IF i = 1 THEN a1 ELSE a2]]]
    /\ wrap = Idle
    /\ canvas = Idle
    /\ pc = "idle"
    /\ inp = [file |-> "missing", tpl |-> NoDoc, body |-> <<>>,
              image |-> NoImage, source |-> <<>>]
    /\ doc = NoDoc
    /\ lay = NoLay
    /\ result = Pending
    /\ cycler = Idle
    /\ gemini = Idle
    /\ source_call = Idle
    /\ text_call = Idle

\* Call i takes its next step; the other call stands where it is.
CallStep(i) ==
    /\ pair.call[i].f.pc \notin {"returned", "raised"}
    /\ pair' = [pair EXCEPT
          !.call[i].f = one_step(pair.call[i].f, pair.disk.kind,
                                 parsed_tree(pair, i), pair.call[i].a)]
    /\ UNCHANGED <<wrap, canvas, pc, inp, doc, lay, result, cycler, gemini,
                   source_call, text_call>>

NextPair == \E i \in Callers : CallStep(i)

SpecPair == InitPair /\ [][NextPair]_vars

\* ------------------------------------------------------------------------
\* _inject_source alone, twice on the same tree
\* ------------------------------------------------------------------------
SourceEl(x, y, text, children) ==
    [present |-> TRUE, x |-> x, y |-> y, text |-> text, tail |-> <<"\n">>,
     children |-> children]

\* Source slots with every kind of prior content: none, text, coordinates
\* on the <text>, on a <tspan>, on neither, not positive, not numbers.
SourceSlotsAlone ==
    { AbsentSource,
      SourceEl(Absent, Absent, <<>>, <<>>),
      SourceEl(Absent, Absent, Old, <<>>),
      SourceEl(Num(Px(30)), Num(Px(700)), Old, <<>>),
      SourceEl(Absent, Absent, <<>>,
               <<Tspan(Num(Px(24)), Num(Px(700)), Absent, Old)>>),
      SourceEl(Num(Px(30)), Num(Px(5)), Old,
               <<Tspan(Num(0), Num(0), Absent, Old)>>),
      SourceEl(Absent, Absent, <<>>,
               <<Tspan(Num(0), Num(0), Absent, Old),
                 Tspan(Num(Px(40)), Num(Px(200)), Absent, Old)>>),
      SourceEl(Num(-Px(5)), Num(Px(700)), Old, <<>>),
      SourceEl(Bad, NumPx(Px(700)), Old, <<>>) }

SourceTrees ==
    { Template(Root(Num(Px(400)), Num(Px(800)), NoViewBox), AbsentText,
               ImagePart(AbsentImage, NoPattern, NoResource), s) :
        s \in SourceSlotsAlone }

SourceTexts == { <<>>, <<"s", "r", "c">>, <<"S", ":", " ", "x">> }

SourceYs == { 0, Px(500), Px(650) + 50 }

SourceXs == { NoX, GivenX(Px(24), TRUE), GivenX(Px(30), FALSE) }

InitSource ==
    /\ source_call \in [pc : {"call"}, before : SourceTrees,
                        root : {NoDoc}, once : {NoDoc},
                        source_text : SourceTexts, new_y : SourceYs,
                        x : SourceXs]
    /\ wrap = Idle
    /\ canvas = Idle
    /\ pc = "idle"
    /\ inp = [file |-> "missing", tpl |-> NoDoc, body |-> <<>>,
              image |-> NoImage, source |-> <<>>]
    /\ doc = NoDoc
    /\ lay = NoLay
    /\ result = Pending
    /\ pair = Idle
    /\ cycler = Idle
    /\ gemini = Idle
    /\ text_call = Idle

\* the first call, on the parsed tree
SourceFirst ==
    /\ source_call.pc = "call"
    /\ LET r == inject_source(source_call.before, source_call.source_text,
                              source_call.new_y, source_call.x)
       IN  source_call' = [source_call EXCEPT !.pc = "once", !.root = r,
                                              !.once = r]
    /\ UNCHANGED <<wrap, canvas, pc, inp, doc, lay, result, pair, cycler,
                   gemini, text_call>>

\* the same call again, on the tree the first call left
SourceAgain ==
    /\ source_call.pc = "once"
    /\ source_call' = [source_call EXCEPT
          !.pc = "twice",
          !.root = inject_source(source_call.root, source_call.source_text,
                                 source_call.new_y, source_call.x)]
    /\ UNCHANGED <<wrap, canvas, pc, inp, doc, lay, result, pair, cycler,
                   gemini, text_call>>

NextSource == SourceFirst \/ SourceAgain

SpecSource == InitSource /\ [][NextSource]_vars

\* ------------------------------------------------------------------------
\* _inject_text alone, twice on the same tree
\* ------------------------------------------------------------------------
\* The text slots of the templates and slots with coordinates nowhere, on
\* the <text> only in part, not positive, or on a <tspan> only in part.
TextSlotsAlone ==
    TextSlots \cup
    { TextEl(Absent, Absent, Absent, NoStyle, <<>>),
      TextEl(Absent, Num(Px(50)), Num(Px(22)), NoStyle, <<>>),
      TextEl(Num(0), Num(0), Absent, NoStyle, <<>>),
      TextEl(Num(-Px(5)), Num(0), Absent, NoStyle, <<>>),
      TextEl(Absent, Absent, Absent, NoStyle,
             <<Tspan(Num(Px(24)), Absent, Absent, Old),
               Tspan(Num(Px(24)), Num(0), Absent, Old)>>) }

TextTrees ==
    { Template(Root(Num(Px(400)), Num(Px(800)), NoViewBox), t,
               ImagePart(AbsentImage, NoPattern, NoResource), AbsentSource) :
        t \in TextSlotsAlone }

TextWidths == { Px(400), Px(1000) }

InitText ==
    /\ text_call \in [pc : {"call"}, before : TextTrees, root : {NoDoc},
                      once : {NoDoc}, body : Bodies, svg_width : TextWidths,
                      ret : {NoTextInfo}, ret_once : {NoTextInfo}]
    /\ wrap = Idle
    /\ canvas = Idle
    /\ pc = "idle"
    /\ inp = [file |-> "missing", tpl |-> NoDoc, body |-> <<>>,
              image |-> NoImage, source |-> <<>>]
    /\ doc = NoDoc
    /\ lay = NoLay
    /\ result = Pending
    /\ pair = Idle
    /\ cycler = Idle
    /\ gemini = Idle
    /\ source_call = Idle

\* the first call, on the parsed tree
TextFirst ==
    /\ text_call.pc = "call"
    /\ LET r == inject_text(text_call.before, text_call.body,
                            text_call.svg_width)
       IN  text_call' = [text_call EXCEPT
               !.pc = IF r.raised THEN "raised" ELSE "once",
               !.root = r.doc, !.once = r.doc,
               !.ret = r.info, !.ret_once = r.info]
    /\ UNCHANGED <<wrap, canvas, pc, inp, doc, lay, result, pair, cycler,
                   gemini, source_call>>

\* the same call again, on the tree the first call left
TextAgain ==
    /\ text_call.pc = "once"
    /\ LET r == inject_text(text_call.root, text_call.body,
                            text_call.svg_width)
       IN  text_call' = [text_call EXCEPT
               !.pc = IF r.raised THEN "raised" ELSE "twice",
               !.root = r.doc, !.ret = r.info]
    /\ UNCHANGED <<wrap, canvas, pc, inp, doc, lay, result, pair, cycler,
                   gemini, source_call>>

NextText == TextFirst \/ TextAgain

SpecText == InitText /\ [][NextText]_vars

\* ------------------------------------------------------------------------
\* KeyCycler (src/app/services/api_key_manager.py): threads calling get_key
\* and reload on one object
\* ------------------------------------------------------------------------
Threads == {1, 2}

\* The key lists a KeyCycler is built with or reloaded with.
KeyLists == { <<>>, <<"k1">>, <<"k1", "k2">>, <<"k3", "k4", "k5">> }

NoLock == 0

\* What the last call of a thread gave: nothing yet, None, a key (with the
\* list it was selected from), an exception, or a finished reload.
NoOutcome == [kind |-> "nothing", key |-> "", from |-> <<>>]

ReturnedNone == [kind |-> "none", key |-> "", from |-> <<>>]

ReturnedKey(key, keys) == [kind |-> "key", key |-> key, from |-> keys]

RaisedError(name) == [kind |-> "raised", key |-> name, from |-> <<>>]

Reloaded == [kind |-> "reloaded", key |-> "", from |-> <<>>]

\* A thread between two calls.
Resting(last) ==
    [pc |-> "idle", keys |-> <<>>, cycling |-> FALSE, last |-> last]

\* lines 25-30: KeyCycler(service_name, keys, cycling)
InitCycler ==
    /\ \E keys \in KeyLists, cycling \in BOOLEAN :
          cycler = [pc |-> "run", _keys |-> keys, _cycling |-> cycling,
                    _index |-> 0, _lock |-> NoLock,
                    thread |-> [t \in Threads |-> Resting(NoOutcome)]]
    /\ wrap = Idle
    /\ canvas = Idle
    /\ pc = "idle"
    /\ inp = [file |-> "missing", tpl |-> NoDoc, body |-> <<>>,
              image |-> NoImage, source |-> <<>>]
    /\ doc = NoDoc
    /\ lay = NoLay
    /\ result = Pending
    /\ pair = Idle
    /\ gemini = Idle
    /\ source_call = Idle
    /\ text_call = Idle

CyclerOnly ==
    UNCHANGED <<wrap, canvas, pc, inp, doc, lay, result, pair, gemini,
                source_call, text_call>>

\* lines 50-51: get_key reads self._keys without the lock
GetKeyCheck(t) ==
    /\ cycler.thread[t].pc = "idle"
    /\ cycler._index <= MaxIndex
    /\ cycler' = [cycler EXCEPT !.thread[t] =
          IF cycler._keys = <<>> THEN Resting(ReturnedNone)
          ELSE [Resting(NoOutcome) EXCEPT !.pc = "get_key:lock"]]
    /\ CyclerOnly

\* line 52: with self._lock
GetKeyAcquire(t) ==
    /\ cycler.thread[t].pc = "get_key:lock"
    /\ cycler._lock = NoLock
    /\ cycler' = [cycler EXCEPT !._lock = t,
                                !.thread[t].pc = "get_key:locked"]
    /\ CyclerOnly

\* lines 53-58, the lock released on the way out of the block.  The index
\* expression divides by len(self._keys); self._keys[0] needs a first key.
GetKeySelect(t) ==
    /\ cycler.thread[t].pc = "get_key:locked"
    /\ LET keys == cycler._keys
           n == Len(keys)
       IN  cycler' =
             IF cycler._cycling
             THEN IF n = 0
                  THEN [cycler EXCEPT
                          !._lock = NoLock,
                          !.thread[t] = Resting(RaisedError("ZeroDivisionError"))]
                  ELSE [cycler EXCEPT
                          !._lock = NoLock,
                          !._index = @ + 1,
                          !.thread[t] = Resting(ReturnedKey(
                              keys[(cycler._index % n) + 1], keys))]
             ELSE IF n = 0
                  THEN [cycler EXCEPT
                          !._lock = NoLock,
                          !.thread[t] = Resting(RaisedError("IndexError"))]
                  ELSE [cycler EXCEPT
                          !._lock = NoLock,
                          !.thread[t] = Resting(ReturnedKey(keys[1], keys))]
    /\ CyclerOnly

\* line 40: reload(keys, cycling) is called
ReloadCall(t) ==
    /\ cycler.thread[t].pc = "idle"
    /\ \E keys \in KeyLists, cycling \in BOOLEAN :
          cycler' = [cycler EXCEPT !.thread[t] =
              [pc |-> "reload:lock", keys |-> keys, cycling |-> cycling,
               last |-> NoOutcome]]
    /\ CyclerOnly

\* line 42: with self._lock
ReloadAcquire(t) ==
    /\ cycler.thread[t].pc = "reload:lock"
    /\ cycler._lock = NoLock
    /\ cycler' = [cycler EXCEPT !._lock = t,
                                !.thread[t].pc = "reload:locked"]
    /\ CyclerOnly

\* lines 43-46, the lock released on the way out of the block
ReloadInstall(t) ==
    /\ cycler.thread[t].pc = "reload:locked"
    /\ LET me == cycler.thread[t]
       IN  cycler' = [cycler EXCEPT
              !._keys = me.keys,
              !._cycling = me.cycling,
              !._index = IF @ >= Len(me.keys) THEN 0 ELSE @,
              !._lock = NoLock,
              !.thread[t] = Resting(Reloaded)]
    /\ CyclerOnly

NextCycler ==
    \E t \in Threads :
        \/ GetKeyCheck(t)
        \/ GetKeyAcquire(t)
        \/ GetKeySelect(t)
        \/ ReloadCall(t)
        \/ ReloadAcquire(t)
        \/ ReloadInstall(t)

SpecCycler == InitCycler /\ [][NextCycler]_vars

\* ------------------------------------------------------------------------
\* APIKeyManager.gemini_generate: one call and the "gemini" KeyCycler
\* ------------------------------------------------------------------------
\* The Gemini key lists of the settings store.
GeminiKeyLists == { <<>>, <<"k1">>, <<"k1", "k2">>, <<"k1", "k2", "k3">> }

\* Where the cycler's index stands when the call starts (earlier calls
\* have moved it).
StartIndexes == {0, 1, 2}

\* The max_retries argument; 0 is the default.
RetryArgs == {-1, 0, 1, 2, 4}

\* What one generate_content call gives.
Answers == {"response", "rate_limit", "other_error"}

\* KeyCycler.get_key with no other thread running (lines 48-58): the key
\* and the index afterwards.
get_key(keys, cycling, index) ==
    IF keys = <<>> THEN [key |-> "None", index |-> index]
    ELSE IF cycling
    THEN [key |-> keys[(index % Len(keys)) + 1], index |-> index + 1]
    ELSE [key |-> keys[1], index |-> index]

InitGemini ==
    /\ \E keys \in GeminiKeyLists, cycling \in BOOLEAN,
          index \in StartIndexes, max_retries \in RetryArgs :
          gemini = [pc |-> "call", _keys |-> keys, _cycling |-> cycling,
                    _index |-> index, arg |-> max_retries,
                    all_keys |-> <<>>, max_retries |-> max_retries,
                    attempt |-> 0, key |-> "", tried |-> <<>>,
                    errors |-> <<>>, last_error |-> "None",
                    outcome |-> "pending"]
    /\ wrap = Idle
    /\ canvas = Idle
    /\ pc = "idle"
    /\ inp = [file |-> "missing", tpl |-> NoDoc, body |-> <<>>,
              image |-> NoImage, source |-> <<>>]
    /\ doc = NoDoc
    /\ lay = NoLay
    /\ result = Pending
    /\ pair = Idle
    /\ cycler = Idle
    /\ source_call = Idle
    /\ text_call = Idle

GeminiOnly ==
    UNCHANGED <<wrap, canvas, pc, inp, doc, lay, result, pair, cycler,
                source_call, text_call>>

\* lines 123-127: get_all_keys; no key raises RuntimeError
ReadAllKeys ==
    /\ gemini.pc = "call"
    /\ gemini' =
          IF gemini._keys = <<>>
          THEN [gemini EXCEPT !.pc = "raised", !.outcome = "RuntimeError"]
          ELSE [gemini EXCEPT !.pc = "keys", !.all_keys = gemini._keys]
    /\ GeminiOnly

\* lines 129-132
DefaultRetries ==
    /\ gemini.pc = "keys"
    /\ gemini' = [gemini EXCEPT
          !.pc = "loop",
          !.max_retries = IF @ = 0 THEN Len(gemini.all_keys) ELSE @]
    /\ GeminiOnly

\* lines 134-135: the next attempt takes a key from the cycler
TakeKey ==
    /\ gemini.pc = "loop"
    /\ gemini.attempt < gemini.max_retries
    /\ LET r == get_key(gemini._keys, gemini._cycling, gemini._index)
       IN  gemini' = [gemini EXCEPT !.pc = "attempt", !.key = r.key,
                                    !._index = r.index,
                                    !.tried = Append(@, r.key)]
    /\ GeminiOnly

\* lines 138-159: the request with that key; a rate limit before the last
\* attempt goes on to the next attempt, every other exception is raised
Generate ==
    /\ gemini.pc = "attempt"
    /\ \E answer \in Answers :
          gemini' =
            IF answer = "response"
            THEN [gemini EXCEPT !.pc = "returned", !.outcome = "response"]
            ELSE IF answer = "rate_limit"
                    /\ gemini.attempt < gemini.max_retries - 1
            THEN [gemini EXCEPT !.pc = "loop", !.attempt = @ + 1,
                                !.errors = Append(@, answer),
                                !.last_error = answer]
            ELSE [gemini EXCEPT !.pc = "raised", !.outcome = answer,
                                !.errors = Append(@, answer)]
    /\ GeminiOnly

\* line 161: the loop ran out
Exhausted ==
    /\ gemini.pc = "loop"
    /\ ~(gemini.attempt < gemini.max_retries)
    /\ gemini' = [gemini EXCEPT
          !.pc = "raised",
          !.outcome = IF gemini.last_error # "None" THEN gemini.last_error
                      ELSE "RuntimeError"]
    /\ GeminiOnly

NextGemini ==
    \/ ReadAllKeys
    \/ DefaultRetries
    \/ TakeKey
    \/ Generate
    \/ Exhausted

SpecGemini == InitGemini /\ [][NextGemini]_vars

\* ------------------------------------------------------------------------
\* Positions of the call
\* ------------------------------------------------------------------------
\* _inject_text has returned
TextDone ==
    \/ pc \in {"text", "image", "source", "resized", "rasterized"}
    \/ result.at \in {"image", "rasterize", "compose"}

\* _inject_image has returned
ImageDone ==
    \/ pc \in {"image", "source", "resized", "rasterized"}
    \/ result.at \in {"rasterize", "compose"}

\* _resize_svg has returned
ResizeDone ==
    \/ pc \in {"resized", "rasterized"}
    \/ result.at \in {"rasterize", "compose"}

\* ------------------------------------------------------------------------
\* Properties
\* ------------------------------------------------------------------------

\* C1: the height _resize_svg writes to the document root is at least the
\* template's original height, as _svg_dims returned it.
C1_WrittenHeightAtLeastOriginal ==
    ResizeDone => get_float(doc.root.height, 0) >= lay.original_h

\* C2: whatever the card's size, the image _compose_on_canvas returns is
\* VIDEO_WIDTH x VIDEO_HEIGHT.
C2_CanvasSizeFixed ==
    (canvas.pc = "ret" /\ ~canvas.res.raised) =>
        /\ canvas.res.out_w = VIDEO_WIDTH
        /\ canvas.res.out_h = VIDEO_HEIGHT

\* C2: a landscape card, larger than the canvas, has been composed.
C2_Witness ==
    /\ canvas.pc = "ret"
    /\ ~canvas.res.raised
    /\ canvas.card_w = 1920 /\ canvas.card_h = 1080
    /\ canvas.res.out_w = 1080 /\ canvas.res.out_h = 1920

\* C3: every card of at least 1 x 1 pixels is scaled to at least 1 x 1 and
\* at most the canvas less the margins, one of the two dimensions at its
\* bound, and pasted with CARD_MARGIN free on each side; nothing raises.
C3_ScaledCardInsideMargins ==
    canvas.pc = "ret" =>
        LET r == canvas.res
            target_w == VIDEO_WIDTH - (CARD_MARGIN * 2)
            target_h == VIDEO_HEIGHT - (CARD_MARGIN * 2)
        IN  /\ ~r.raised
            /\ 1 <= r.new_w /\ r.new_w <= target_w
            /\ 1 <= r.new_h /\ r.new_h <= target_h
            /\ r.new_w = target_w \/ r.new_h = target_h
            /\ r.x >= CARD_MARGIN /\ r.x + r.new_w <= VIDEO_WIDTH - CARD_MARGIN
            /\ r.y >= CARD_MARGIN /\ r.y + r.new_h <= VIDEO_HEIGHT - CARD_MARGIN

\* A line is one word: no blank in it and not empty.
one_word(line) == line # <<>> /\ \A i \in 1..Len(line) : line[i] # " "

RECURSIVE words_of(_)
\* The words of the lines, line after line.
words_of(lines) ==
    IF lines = <<>> THEN <<>>
    ELSE split(Head(lines)) \o words_of(Tail(lines))

\* C5: the words of the lines _wrap_text returns, in line order, are the
\* words of the body, in order.
C5_WordsPreserved ==
    wrap.pc = "ret" => words_of(wrap.lines) = split(wrap.text)

\* C5: a body with a leading blank and three words, wrapped into at least
\* two lines, one of them with two words.
C5_Witness ==
    /\ wrap.pc = "ret"
    /\ Len(split(wrap.text)) = 3
    /\ wrap.text[1] = " "
    /\ Len(wrap.lines) >= 2
    /\ \E i \in 1..Len(wrap.lines) : Len(split(wrap.lines[i])) = 2

\* C6: _inject_text reports at least one line and a text height that is
\* not zero; the slot holds one sub-run per line, and for an empty body
\* exactly one, which is empty.
C6_AtLeastOneLine ==
    TextDone =>
        /\ lay.text_info.num_lines >= 1
        /\ lay.text_info.text_height # 0
        /\ inp.tpl.text.present =>
              /\ Len(doc.text.children) = lay.text_info.num_lines
              /\ inp.body = <<>> =>
                    /\ Len(doc.text.children) = 1
                    /\ doc.text.children[1].text = <<>>

\* C6: an empty body has been injected into a template with a text slot.
C6_Witness ==
    /\ pc = "text"
    /\ inp.body = <<>>
    /\ inp.tpl.text.present
    /\ lay.text_info.num_lines = 1
    /\ doc.text.children[1].text = <<>>

\* C7: a template that is not well-formed ends the call with a failure
\* result at the parse, and nothing of the tree or the layout is computed.
C7_MalformedTemplateFails ==
    inp.file = "malformed" =>
        /\ pc \in {"start", "read", "returned"}
        /\ doc = NoDoc
        /\ lay = NoLay
        /\ pc = "returned" => result = ReturnNone("parse")
        /\ pc # "returned" => result = Pending

\* C7: the call has returned None for a malformed template.
C7_Witness ==
    /\ inp.file = "malformed"
    /\ pc = "returned"
    /\ result = ReturnNone("parse")

\* One of the three slots is absent from the template.
SlotAbsent ==
    \/ ~inp.tpl.text.present
    \/ inp.tpl.image.kind = "absent"
    \/ ~inp.tpl.source.present

\* C8: with any of the three slots absent from a well-formed template, no
\* step of the injection sequence raises; with main_image absent the image
\* block is DEFAULT_IMAGE_HEIGHT high and placed at the computed new_y.
C8_MissingSlotsNonFatal ==
    (inp.file = "ok" /\ SlotAbsent) =>
        /\ ~(pc = "raised" /\ result.at \in {"text", "image", "source", "resize"})
        /\ (ImageDone /\ inp.tpl.image.kind = "absent") =>
              /\ lay.img_info.img_height = Px(DEFAULT_IMAGE_HEIGHT)
              /\ lay.img_info.img_y = lay.image_y

\* The image slot and what it refers to, as far as a payload or a size is
\* concerned.
image_payload(d) ==
    [href |-> d.image.href, width |-> d.image.width, height |-> d.image.height,
     rect_height |-> d.image.rect.height, child |-> d.image.child,
     nested_href |-> d.pattern.img.href, nested_width |-> d.pattern.img.width,
     nested_height |-> d.pattern.img.height,
     res_href |-> d.resource.href, res_width |-> d.resource.width,
     res_height |-> d.resource.height]

\* C9: with image bytes that cannot be decoded the render is not aborted
\* and the image block, the image slot's payload and size attributes, the
\* source offset and the final size are those of the render without image.
C9_BadImageSameAsNoImage ==
    inp.image.kind = "bad" =>
        /\ ~(pc = "raised" /\ result.at = "image")
        /\ ImageDone =>
              LET n == upto_image(inp.tpl, inp.body, NoImage)
              IN  /\ lay.img_info.img_height = n.lay.img_info.img_height
                  /\ image_payload(doc) = image_payload(n.doc)
        /\ ResizeDone =>
              LET n == injected(inp.tpl, inp.body, NoImage, inp.source)
              IN  /\ lay.source_y = n.lay.source_y
                  /\ lay.new_height = n.lay.new_height
                  /\ lay.final_w = n.lay.final_w

\* C10: a decodable image of nw x nh pixels injected into a direct image
\* slot of width w leaves the width at w and makes the height, attribute
\* and returned img_height alike, w / (nw / nh).
C10_DirectHeightFromAspect ==
    (ImageDone /\ inp.tpl.image.kind = "image" /\ inp.image.kind = "ok") =>
        LET w == get_float(inp.tpl.image.width, default_img_w(lay.svg_w))
        IN  /\ doc.image.width = Num(w)
            /\ lay.img_info.img_width = w
            /\ doc.image.height.k = "num"
            /\ doc.image.height.v * inp.image.w = w * inp.image.h
            /\ lay.img_info.img_height = doc.image.height.v

\* C10: 1200 x 600 pixels injected into a direct slot 300 wide: 150 high.
C10_Witness ==
    /\ pc = "image"
    /\ inp.tpl.image.kind = "image"
    /\ inp.tpl.image.width = Num(Px(300))
    /\ inp.image.kind = "ok" /\ inp.image.w = 1200 /\ inp.image.h = 600
    /\ doc.image.width = Num(Px(300))
    /\ doc.image.height = Num(Px(150))
    /\ lay.img_info.img_height = Px(150)

\* The template's main_image is a group whose rect is filled by a pattern
\* the tree holds.
PatternFound ==
    /\ inp.tpl.image.kind = "g"
    /\ inp.tpl.image.rect.present
    /\ inp.tpl.image.rect.fill.k = "url"
    /\ inp.tpl.pattern.present
    /\ inp.tpl.image.rect.fill.ref = inp.tpl.pattern.id

\* The pattern's <use> names an image the tree holds.
UseChain ==
    /\ PatternFound
    /\ inp.tpl.pattern.has_use /\ inp.tpl.pattern.use_href = "hash"
    /\ inp.tpl.resource.present
    /\ inp.tpl.pattern.use_target = inp.tpl.resource.id

\* The pattern names no image by <use> and holds an <image> itself.
NestedChain ==
    /\ PatternFound
    /\ ~(inp.tpl.pattern.has_use /\ inp.tpl.pattern.use_href = "hash")
    /\ inp.tpl.pattern.has_image

\* t is scale(1/nw 1/nh), each factor printed to eight decimals.
is_inverse_scale(t, nw, nh) ==
    /\ t.k = "scale"
    /\ 2 * Abs(t.sx * nw - 100000000) <= nw
    /\ 2 * Abs(t.sy * nh - 100000000) <= nh

\* el carries the payload of the supplied bytes and their pixel size.
carries_image(el) ==
    /\ el.href = to_base64_uri(inp.image)
    /\ el.width = Num(Px(inp.image.w))
    /\ el.height = Num(Px(inp.image.h))

\* C11 as stated: after a decodable image of nw x nh pixels is injected
\* into a pattern-filled slot, the image the pattern shows carries the new
\* payload and the size nw x nh, and scale(1/nw 1/nh) is on the <use> when
\* the pattern has one and on the nested image when it holds the image.
C11_ScaleAlwaysSet ==
    (ImageDone /\ inp.image.kind = "ok") =>
        /\ UseChain =>
              /\ carries_image(doc.resource)
              /\ is_inverse_scale(doc.pattern.use_transform,
                                  inp.image.w, inp.image.h)
        /\ NestedChain =>
              /\ carries_image(doc.pattern.img)
              /\ is_inverse_scale(doc.pattern.img.transform,
                                  inp.image.w, inp.image.h)

\* C11, amended: as above, but the nested image's transform is
\* scale(1/nw 1/nh) only when the pattern's patternContentUnits is
\* objectBoundingBox; otherwise it is left as the template had it.
C11_ScaleSetForBoundingBox ==
    (ImageDone /\ inp.image.kind = "ok") =>
        /\ UseChain =>
              /\ carries_image(doc.resource)
              /\ is_inverse_scale(doc.pattern.use_transform,
                                  inp.image.w, inp.image.h)
        /\ NestedChain =>
              /\ carries_image(doc.pattern.img)
              /\ IF inp.tpl.pattern.units = "objectBoundingBox"
                 THEN is_inverse_scale(doc.pattern.img.transform,
                                       inp.image.w, inp.image.h)
                 ELSE doc.pattern.img.transform = inp.tpl.pattern.img.transform

\* C11: 1200 x 600 pixels injected through rect, pattern and <use>: the
\* factors are 0.00083333 and 0.00166667.
C11_Witness ==
    /\ pc = "image"
    /\ UseChain
    /\ inp.image.kind = "ok" /\ inp.image.w = 1200 /\ inp.image.h = 600
    /\ doc.resource.width = Num(Px(1200))
    /\ doc.resource.height = Num(Px(600))
    /\ doc.pattern.use_transform = [k |-> "scale", sx |-> 83333, sy |-> 166667]

\* The template's main_image is a group with a rect whose fill leads to no
\* image: no url(#id) fill, no pattern under that id, a pattern with
\* neither <use> nor <image>, or a <use> whose target the tree lacks.
Unresolved ==
    /\ inp.tpl.image.kind = "g"
    /\ inp.tpl.image.rect.present
    /\ ~UseChain
    /\ ~NestedChain

\* C12: with image bytes supplied and a fill that cannot be resolved, the
\* injection does not raise and afterwards the group holds, in place of the
\* rect, an image element carrying the new payload.
C12_UnresolvedFillConverted ==
    (truthy(inp.image) /\ Unresolved) =>
        /\ ~(pc = "raised" /\ result.at = "image")
        /\ ImageDone =>
              /\ doc.image.child.present
              /\ doc.image.child.href = to_base64_uri(inp.image)
              /\ ~doc.image.rect.intree

\* _inject_source has returned
SourceDone ==
    \/ pc \in {"source", "resized", "rasterized"}
    \/ result.at \in {"rasterize", "compose"}

\* C13: each block's offset is computed from the blocks above it, once:
\* image_y = start_y + text_height + TEXT_TO_IMAGE_GAP, source_y = image_y +
\* img_height + IMAGE_TO_SOURCE_GAP, new_height = max(source_y +
\* SOURCE_LINE_HEIGHT + BOTTOM_PADDING, original_h), and these are the
\* values _inject_image, _inject_source and _resize_svg were given.
C13_LayoutPass ==
    /\ ImageDone =>
          /\ lay.text_bottom =
                lay.text_info.start_y + lay.text_info.text_height
          /\ lay.image_y = lay.text_bottom + Px(TEXT_TO_IMAGE_GAP)
          /\ lay.img_info.img_y = lay.image_y
          /\ inp.tpl.image.kind = "image" => doc.image.y = Num(lay.image_y)
    /\ SourceDone =>
          /\ lay.image_bottom = lay.image_y + lay.img_info.img_height
          /\ lay.source_y = lay.image_bottom + Px(IMAGE_TO_SOURCE_GAP)
          /\ inp.tpl.source.present =>
                /\ Len(doc.source.children) = 1
                /\ doc.source.children[1].y = Num(lay.source_y)
    /\ ResizeDone =>
          /\ lay.new_height =
                Max(lay.source_y + Px(SOURCE_LINE_HEIGHT) + Px(BOTTOM_PADDING),
                    lay.original_h)
          /\ doc.root.height = Num(Px(ToInt(lay.new_height)))

\* C13: a body of several lines and a decodable image have been laid out
\* and the content is higher than the template.
C13_Witness ==
    /\ pc = "resized"
    /\ lay.text_info.num_lines > 1
    /\ inp.image.kind = "ok"
    /\ inp.tpl.source.present
    /\ lay.new_height > lay.original_h
    /\ lay.new_height = lay.source_y + Px(34)

\* The image widens the card: bytes that decode to an aspect ratio above 1.2.
WideImage ==
    /\ inp.image.kind = "ok"
    /\ inp.image.w * 10 > inp.image.h * 12

\* C14: the width written to the document root is never below the
\* template's width as _svg_dims returned it, and equals it when no image
\* is supplied or the image is not wide.
C14_WrittenWidthAtLeastOriginal ==
    ResizeDone =>
        /\ get_float(doc.root.width, 0) >= lay.svg_w
        /\ ~WideImage => get_float(doc.root.width, 0) = lay.svg_w

\* The width-growth rule is applied: a wide image and an image block that
\* reports a positive natural width.
RuleApplied ==
    /\ WideImage
    /\ lay.img_info.has_natural
    /\ lay.img_info.natural_width > 0

DimsDone ==
    \/ pc \in {"measured", "text", "image", "source", "resized", "rasterized"}
    \/ result.at \in {"text", "image", "rasterize", "compose"}

\* got is the dimension resolved in order: the explicit attribute when it
\* is a number other than 0, for an absent attribute the viewBox's number,
\* and the default when there is no usable viewBox either.
resolved_in_order(attr, vb, vb_value, default, got) ==
    IF attr.k \in {"num", "px"} /\ attr.v # 0 THEN got = attr.v
    ELSE IF attr.k # "absent" THEN TRUE
    ELSE IF vb.k = "four" THEN got = vb_value
    ELSE IF vb.k \in {"absent", "short"} THEN got = default
    ELSE TRUE

\* C16: _svg_dims resolves the width and the height each in the order
\* explicit attribute, viewBox, default 500 x 800; an explicit attribute is
\* never replaced by the viewBox's value.
C16_DimsResolvedInOrder ==
    DimsDone =>
        /\ resolved_in_order(inp.tpl.root.width, inp.tpl.root.viewBox,
                             inp.tpl.root.viewBox.w, Px(500), lay.svg_w)
        /\ resolved_in_order(inp.tpl.root.height, inp.tpl.root.viewBox,
                             inp.tpl.root.viewBox.h, Px(800), lay.original_h)

\* C17: for every root of a well-formed template _svg_dims returns without
\* raising, and both dimensions it returns are positive.
C17_DimsPositive ==
    /\ ~(pc = "raised" /\ result.at = "dims")
    /\ DimsDone => (lay.svg_w > 0 /\ lay.original_h > 0)

\* What a run of the injection sequence leaves: how far it came, the
\* document, and the line breaks, offsets and final size.
geometry(f) ==
    [pc |-> f.pc, doc |-> f.doc, text_info |-> f.lay.text_info,
     image_y |-> f.lay.image_y, img_info |-> f.lay.img_info,
     source_y |-> f.lay.source_y, new_height |-> f.lay.new_height,
     final_w |-> f.lay.final_w]

PlainCard ==
    /\ inp.tpl.root.width.k \in {"num", "px"}
    /\ inp.tpl.root.width.v = Px(400)
    /\ inp.tpl.root.height.k \in {"num", "px"}
    /\ inp.tpl.root.height.v = Px(800)
    /\ inp.body = <<>>
    /\ ~truthy(inp.image)

RECURSIVE joined_len(_)
\* The length of the words joined by single blanks.
joined_len(words) ==
    IF words = <<>> THEN 0
    ELSE IF Len(words) = 1 THEN Len(words[1])
    ELSE Len(Head(words)) + 1 + joined_len(Tail(words))

StepOrder ==
    <<"start", "read", "parsed", "measured", "text", "image", "source",
      "resized", "rasterized">>

\* The call moves from position p to position q: q is the next position of
\* the order, or the call ends there.
next_position(p, q) ==
    \/ q \in {"returned", "raised"}
    \/ \E i \in 1..(Len(StepOrder) - 1) : p = StepOrder[i] /\ q = StepOrder[i + 1]

\* What the call has when the PNG bytes exist: every step before has left
\* its result.
AllStepsDone ==
    /\ inp.file = "ok"
    /\ doc # NoDoc
    /\ lay.svg_w # 0
    /\ lay.text_info.num_lines >= 1
    /\ lay.img_info # NoImgInfo
    /\ lay.source_text # <<>>
    /\ lay.final_w # 0
    /\ lay.card_w >= 1 /\ lay.card_h >= 1
    /\ lay.composed # NoCompose

\* C21: the PNG bytes exist only when the call has returned from the
\* canvas composition, after every step before it has completed, and the
\* steps are taken in the order of the code; a missing template, a parse
\* error and a rasterization error each end the call with None before the
\* canvas is composed.
C21_OutputOnlyAtEnd ==
    /\ [](/\ result.kind = "png" =>
                (pc = "returned" /\ result.at = "compose" /\ AllStepsDone)
          /\ result.kind = "none" =>
                /\ pc = "returned"
                /\ result.at \in {"template", "parse", "rasterize"}
                /\ lay.composed = NoCompose
          /\ inp.file = "missing" =>
                (pc \in {"start", "returned"} /\ result.kind \in {"pending", "none"})
          /\ inp.file = "malformed" =>
                (pc \in {"start", "read", "returned"}
                    /\ result.kind \in {"pending", "none"})
          /\ lay.composed # NoCompose => lay.card_w >= 1
          /\ pc \notin {"returned", "raised"} => result = Pending)
    /\ [][pc' # pc => next_position(pc, pc')]_vars

\* C21: the call has returned the PNG bytes of the composed canvas.
C21_Witness ==
    /\ pc = "returned"
    /\ result.kind = "png"
    /\ result.out_w = VIDEO_WIDTH /\ result.out_h = VIDEO_HEIGHT
    /\ AllStepsDone

\* ------------------------------------------------------------------------
\* C22.  Two build_card_svg calls on the same template file share nothing:
\* under every interleaving of their steps, each call stands exactly where
\* it would stand had it run alone with its arguments (its tree, its
\* locals and its result are those of the call run alone on a freshly
\* parsed copy of the file), and no step changes the template on disk.
\* ------------------------------------------------------------------------
C22_CallsIndependent ==
    /\ [](pair.pc = "run" =>
            \A i \in Callers :
                pair.call[i].f = run_alone(StartFrame, pair.disk,
                                           pair.call[i].a, pair.call[i].f.pc))
    /\ [][pair.pc = "run" => pair'.disk = pair.disk]_vars

\* Both calls are in flight on the same file with different bodies, each
\* holding its own injected tree.
C22_Witness ==
    /\ pair.pc = "run"
    /\ pair.disk.kind = "ok"
    /\ pair.call[1].f.pc = "resized"
    /\ pair.call[2].f.pc = "image"
    /\ pair.call[1].a.body # pair.call[2].a.body
    /\ pair.call[1].f.doc.text.children # pair.call[2].f.doc.text.children
    /\ pair.call[2].f.doc.text.children # pair.disk.tpl.text.children

\* The y attribute of the element that draws the image of the main_image
\* slot: the <image> itself, the <image> the fallback put into the group,
\* or the group's rect.
rendered_y(d) ==
    IF d.image.kind = "image" THEN d.image.y
    ELSE IF d.image.child.present THEN d.image.child.y
    ELSE d.image.rect.y

\* The slot exists and holds an element that draws the image.
HasRenderer ==
    \/ doc.image.kind = "image"
    \/ doc.image.kind = "g" /\ (doc.image.child.present \/ doc.image.rect.intree)

\* C23: when _inject_image has returned for an existing main_image slot,
\* whatever its structure and with or without image bytes, the element that
\* draws the image has y = new_y, and the returned img_y is that same new_y.
C23_ImageAtNewY ==
    (pc = "image" /\ HasRenderer) =>
        /\ rendered_y(doc) = Num(lay.image_y)
        /\ lay.img_info.img_y = lay.image_y

\* The slot holds the string s at y and nothing else.
only_source(el, s, y) ==
    /\ el.text = <<>>
    /\ Len(el.children) = 1
    /\ el.children[1].text = s
    /\ el.children[1].y = Num(y)
    /\ el.children[1].dy = Absent

\* C24: after _inject_source(root, s, y) on a tree with a source slot the
\* slot holds exactly s at y, nothing of its prior content; the same call
\* again on the same tree leaves the document as the first call left it.
C24_SourceIdempotent ==
    (source_call.pc \in {"once", "twice"}
        /\ source_call.before.source.present) =>
        /\ only_source(source_call.root.source, source_call.source_text,
                       source_call.new_y)
        /\ source_call.pc = "twice" => source_call.root = source_call.once

\* The children are one <tspan> per line, in order, each at x, the first
\* at y and the others advanced by line_height.
one_run_per_line(children, lines, x, y, line_height) ==
    /\ Len(children) = Len(lines)
    /\ \A i \in 1..Len(children) :
          /\ children[i].text = lines[i]
          /\ get_float(children[i].x, -1) = x
          /\ IF i = 1
             THEN get_float(children[i].y, -1) = y /\ children[i].dy = Absent
             ELSE children[i].y = Absent /\ children[i].dy = Num(line_height)

\* The returned dict as Python compares it (24 == 24.0).
ret_value(info) ==
    [x |-> info.x, start_y |-> info.start_y,
     text_height |-> info.text_height, num_lines |-> info.num_lines,
     line_height |-> info.line_height]

\* C25: _inject_text rebuilds the block on every call: the children are one
\* sub-run per wrapped line of the body, at the slot's origin x, the first
\* at the slot's y and the others advanced by line_height; a second call
\* with the same body on the same tree gives the same document and the
\* same return value as the first.
C25_TextIdempotent ==
    (text_call.pc \in {"once", "twice"} /\ text_call.before.text.present) =>
        /\ text_call.root.text.text = <<>>
        /\ one_run_per_line(
               text_call.root.text.children,
               wrap_text(text_call.body, text_call.ret.chars_per_line),
               read_tspan_coords(text_call.before.text).x,
               read_tspan_coords(text_call.before.text).y,
               text_call.ret.line_height)
        /\ text_call.pc = "twice" =>
              /\ text_call.root = text_call.once
              /\ ret_value(text_call.ret) = ret_value(text_call.ret_once)

\* The attribute holds a number.
carries(a) == a.k \in {"num", "px", "int"}

\* C26: the first-line coordinates _inject_text works with are those of the
\* slot's first <tspan> child whenever the slot has one, whatever value
\* that child carries; the <text>'s own coordinates, or the defaults 24 and
\* 120, are used only when the slot has no <tspan> child.
C26_FirstTspanWins ==
    (text_call.pc = "once" /\ text_call.before.text.present) =>
        LET el == text_call.before.text
        IN  IF el.children # <<>>
            THEN /\ carries(el.children[1].x) =>
                        text_call.ret.x = el.children[1].x.v
                 /\ carries(el.children[1].y) =>
                        text_call.ret.start_y = el.children[1].y.v
            ELSE /\ text_call.ret.x = get_float(el.x, Px(24))
                 /\ text_call.ret.start_y = get_float(el.y, Px(120))

\* C27: after _resize_svg(root, w, h) the root's width is int(w), its
\* height int(h) and its viewBox "0 0 int(w) int(h)", and int(w) x int(h)
\* is the size build_card_svg asks the rasterizer for.
C27_RootSelfConsistent ==
    pc \in {"resized", "rasterized"} =>
        LET w == ToInt(lay.final_w)
            h == ToInt(lay.new_height)
        IN  /\ doc.root.width = Num(Px(w))
            /\ doc.root.height = Num(Px(h))
            /\ doc.root.viewBox = ViewBox(Px(w), Px(h))
            /\ pc = "rasterized" => lay.card_w = w /\ lay.card_h = h

\* A card whose computed width is no whole number has been rasterized at
\* the truncated size the root and the viewBox carry.
C27_Witness ==
    /\ pc = "rasterized"
    /\ lay.final_w % Scale # 0
    /\ doc.root.width = Num(Px(lay.card_w))
    /\ doc.root.viewBox = ViewBox(Px(lay.card_w), Px(lay.card_h))
    /\ doc.root.viewBox # inp.tpl.root.viewBox
    /\ lay.new_height > lay.original_h

\* C28: for every text slot of a well-formed template (any width, any
\* origin x, font size absent, a number, with px, zero or not a number)
\* _inject_text returns without raising, with a budget of at least 15
\* characters per line and a positive line height.
C28_TextNeverRaises ==
    (text_call.pc # "call" /\ text_call.before.text.present) =>
        /\ text_call.pc # "raised"
        /\ text_call.ret.chars_per_line >= 15
        /\ text_call.ret.line_height > 0

\* the elements of a sequence
elements(s) == { s[i] : i \in 1..Len(s) }

\* C29: under every interleaving of get_key and reload calls of several
\* threads, get_key never raises; it returns None or a key of the list
\* that was installed when the key was selected; the index never leads to
\* an access outside the list.
C29_GetKeyThreadSafe ==
    cycler.pc = "run" =>
        \A t \in Threads :
            LET last == cycler.thread[t].last
            IN  /\ last.kind # "raised"
                /\ last.kind = "key" => last.key \in elements(last.from)

\* how often key k was tried
times_tried(k) ==
    Cardinality({ i \in 1..Len(gemini.tried) : gemini.tried[i] = k })

\* C30: gemini_generate retries, with another key, only on rate limits.
\* With n >= 1 keys and the default max_retries, a call whose every
\* attempt hit a rate limit has tried each of the n keys exactly once and
\* raises the last error; an error that is no rate limit is raised at
\* once; no call makes more than max_retries attempts.
C30_RotatesOnRateLimit ==
    gemini.pc \in {"returned", "raised"} =>
        /\ (/\ gemini.arg = 0
            /\ gemini._keys # <<>>
            /\ gemini.outcome = "rate_limit"
            /\ \A i \in 1..Len(gemini.errors) :
                  gemini.errors[i] = "rate_limit") =>
              /\ Len(gemini.tried) = Len(gemini._keys)
              /\ \A k \in elements(gemini._keys) : times_tried(k) = 1
        /\ \A i \in 1..Len(gemini.errors) :
              gemini.errors[i] = "other_error" =>
                  /\ i = Len(gemini.errors)
                  /\ gemini.outcome = "other_error"
        /\ Len(gemini.tried) <= Max(0, gemini.max_retries)

====
